---- MODULE Spec2Model ----
(***************************************************************************)
(* AI learning ledger of portfolio-daily (src/src/diff.js, lines 571-1428, *)
(* the module the tests import as aiLearning.js).                          *)
(*                                                                         *)
(* State: the reports directory, that is the ledger file ai-learning.json, *)
(* the factual snapshots <date>.json and the analyst documents             *)
(* <date>.ai.json, plus the way the last invocation of                     *)
(* updateLearningLedger ended.  Spec is the directory under the daily      *)
(* runs.  CallSpec is one call of an exported function on its own          *)
(* (resolvePrediction, extractPredictions, computeAccuracy): the variable  *)
(* call holds its arguments and, once it has run, its result.              *)
(*                                                                         *)
(* Numbers.  Fractions (pnlPct, confidence, price levels) are fixed-point  *)
(* integers with five decimals: 1.0 is Scale.  Market values and           *)
(* quantities are whole numbers.  A JS value that is null, undefined or    *)
(* NaN where the code treats the three alike is Null.  Dates are day       *)
(* numbers: the code compares ISO date strings, which orders them as the   *)
(* day numbers are ordered, and adds days with Date.setUTCDate.            *)
(* Arithmetic is exact decimal arithmetic: ratios are rounded and compared *)
(* as rationals, which is what the code's doubles give on the values the   *)
(* ledger holds (counts, and fractions of four decimals) except where a    *)
(* sum of doubles lands next to a threshold it equals exactly.             *)
(***************************************************************************)
EXTENDS Integers, Sequences, FiniteSets, TLC

\* ------------------------------------------------------------------ bounds
\* the files of the reports directory are written at most MaxWrites times
MaxWrites == 4

\* the days that have a snapshot or a run: two consecutive ones and one a
\* week later; analyst documents are issued on the first two
Dates == {1, 2, 8}
IssueDates == {1, 2}

\* --------------------------------------------------------------- JS values
Null == <<>>
Some(v) == <<v>>
Val(o) == o[1]

Undef == [t |-> "undefined"]
JsNull == [t |-> "null"]
Str(s) == [t |-> "string", s |-> s]
Num(n) == [t |-> "number", n |-> n]
Bool(b) == [t |-> "boolean", b |-> b]
\* an object is its list of <<key, value>> pairs in insertion order
Obj(kv) == [t |-> "object", kv |-> kv]
Arr(a) == [t |-> "array", a |-> a]

Round4Unit == 10000
Scale == 10 * Round4Unit

Truthy(v) ==
  CASE v.t = "string" -> v.s # ""
    [] v.t = "number" -> v.n # 0
    [] v.t = "boolean" -> v.b
    [] v.t \in {"object", "array"} -> TRUE
    [] OTHER -> FALSE

\* a || b
Or(a, b) == IF Truthy(a) THEN a ELSE b

\* typeof v === "object" && v  (arrays included)
IsObjectLike(v) == v.t \in {"object", "array"}

\* v[key]: a property of an object; arrays and primitives have none of the
\* names the code asks for
HasKey(v, key) == v.t = "object" /\ \E i \in 1..Len(v.kv) : v.kv[i][1] = key
Get(v, key) ==
  IF HasKey(v, key)
  THEN v.kv[CHOOSE i \in 1..Len(v.kv) : v.kv[i][1] = key][2]
  ELSE Undef

\* ----------------------------------------------------------------- strings
LowerChars == "abcdefghijklmnopqrstuvwxyz"
UpperChars == "ABCDEFGHIJKLMNOPQRSTUVWXYZ"
DigitChars == "0123456789"

CharAt(s, i) == SubSeq(s, i, i)
IndexIn(alphabet, c) ==
  IF \E i \in 1..Len(alphabet) : CharAt(alphabet, i) = c
  THEN CHOOSE i \in 1..Len(alphabet) : CharAt(alphabet, i) = c
  ELSE 0

RECURSIVE MapChars(_, _, _)
MapChars(s, from, to) ==
  IF s = "" THEN ""
  ELSE LET c == CharAt(s, 1)
           k == IndexIn(from, c)
       IN (IF k = 0 THEN c ELSE CharAt(to, k)) \o MapChars(SubSeq(s, 2, Len(s)), from, to)

toUpperCase(s) == MapChars(s, LowerChars, UpperChars)
toLowerCase(s) == MapChars(s, UpperChars, LowerChars)

RECURSIVE trimStart(_)
trimStart(s) ==
  IF s # "" /\ CharAt(s, 1) = " " THEN trimStart(SubSeq(s, 2, Len(s))) ELSE s
RECURSIVE trimEnd(_)
trimEnd(s) ==
  IF s # "" /\ CharAt(s, Len(s)) = " " THEN trimEnd(SubSeq(s, 1, Len(s) - 1)) ELSE s
trim(s) == trimEnd(trimStart(s))

startsWith(s, p) == Len(s) >= Len(p) /\ SubSeq(s, 1, Len(p)) = p
includes(s, p) ==
  \E i \in 1..(Len(s) - Len(p) + 1) : SubSeq(s, i, i + Len(p) - 1) = p

\* the decimal text of a fixed-point number, as String(n) prints it
RECURSIVE stripZeros(_)
stripZeros(s) ==
  IF s # "" /\ CharAt(s, Len(s)) = "0" THEN stripZeros(SubSeq(s, 1, Len(s) - 1)) ELSE s

Digit(n, place) == ToString((n \div place) % 10)
FracText(frac) ==
  stripZeros(Digit(frac, 10000) \o Digit(frac, 1000) \o Digit(frac, 100)
             \o Digit(frac, 10) \o Digit(frac, 1))
NumText(n) ==
  LET a == IF n < 0 THEN 0 - n ELSE n
      body == ToString(a \div Scale)
              \o (IF a % Scale = 0 THEN "" ELSE "." \o FracText(a % Scale))
  IN IF n < 0 THEN "-" \o body ELSE body

\* String(v) throws a TypeError on an object that has a property toString
\* (parsed JSON holds no function, and Object.prototype.valueOf returns the
\* object), and on an array that holds such an object
RECURSIVE StringThrows(_)
StringThrows(v) ==
  CASE v.t = "object" -> HasKey(v, "toString")
    [] v.t = "array" -> \E i \in 1..Len(v.a) : StringThrows(v.a[i])
    [] OTHER -> FALSE

\* String(v); an array is its elements joined by commas, null as nothing
RECURSIVE String(_)
String(v) ==
  CASE v.t = "string" -> v.s
    [] v.t = "number" -> NumText(v.n)
    [] v.t = "boolean" -> IF v.b THEN "true" ELSE "false"
    [] v.t = "undefined" -> "undefined"
    [] v.t = "null" -> "null"
    [] v.t = "array" ->
         IF v.a = <<>> THEN ""
         ELSE LET text(e) == IF e.t \in {"null", "undefined"} THEN "" ELSE String(e)
                  last == text(v.a[Len(v.a)])
              IN IF Len(v.a) = 1 THEN last
                 ELSE String(Arr(SubSeq(v.a, 1, Len(v.a) - 1))) \o "," \o last
    [] OTHER -> "[object Object]"

\* ----------------------------------------------------------------- helpers
\* Math.round(v * 10000) / 10000; Math.round rounds a half towards +infinity
round4(v) ==
  IF v = Null THEN Null ELSE Some(((Val(v) + 5) \div 10) * 10)

\* the leading digits-and-dot run of s, as parseFloat reads it: digits, then
\* at most one dot followed by digits; Null (NaN) when it holds no digit
RECURSIVE digitRun(_)
digitRun(s) ==
  IF s # "" /\ IndexIn(DigitChars, CharAt(s, 1)) # 0
  THEN CharAt(s, 1) \o digitRun(SubSeq(s, 2, Len(s)))
  ELSE ""

RECURSIVE digitsValue(_)
digitsValue(s) ==
  IF s = "" THEN 0
  ELSE 10 * digitsValue(SubSeq(s, 1, Len(s) - 1)) + (IndexIn(DigitChars, CharAt(s, Len(s))) - 1)

\* the value of the first five decimals of a run of decimal digits
fracValue(s) ==
  LET padded == SubSeq(s \o "00000", 1, 5) IN digitsValue(padded)

parseUnsigned(s) ==
  LET int == digitRun(s)
      rest == SubSeq(s, Len(int) + 1, Len(s))
      frac == IF rest # "" /\ CharAt(rest, 1) = "." THEN digitRun(SubSeq(rest, 2, Len(rest))) ELSE ""
  IN IF int = "" /\ frac = "" THEN Null
     ELSE Some(digitsValue(int) * Scale + fracValue(frac))

\* parseFloat(v): a number is itself, anything else is turned into a string,
\* which is read from its start after white space and an optional sign
parseFloat(v) ==
  IF v.t = "number" THEN Some(v.n)
  ELSE LET s == trimStart(String(v)) IN
       IF s # "" /\ CharAt(s, 1) = "-"
       THEN LET u == parseUnsigned(SubSeq(s, 2, Len(s))) IN
            IF u = Null THEN Null ELSE Some(0 - Val(u))
       ELSE parseUnsigned(s)

\* raw.match(/([\d.]+)/): the first maximal run of digits and dots
RECURSIVE numberRun(_)
numberRun(s) ==
  IF s # "" /\ IndexIn(DigitChars \o ".", CharAt(s, 1)) # 0
  THEN CharAt(s, 1) \o numberRun(SubSeq(s, 2, Len(s)))
  ELSE ""
RECURSIVE firstNumberRun(_)
firstNumberRun(s) ==
  IF s = "" THEN ""
  ELSE IF numberRun(s) # "" THEN numberRun(s)
  ELSE firstNumberRun(SubSeq(s, 2, Len(s)))

normalizeAction(raw) ==
  IF ~Truthy(raw) THEN "UNKNOWN"
  ELSE LET upper == trim(toUpperCase(String(raw))) IN
       IF startsWith(upper, "BUY") \/ upper = "ADD" THEN "BUY"
       ELSE IF startsWith(upper, "SELL") \/ upper = "EXIT" \/ upper = "CLOSE" THEN "SELL"
       ELSE IF startsWith(upper, "HOLD") \/ upper = "MAINTAIN" \/ upper = "KEEP" THEN "HOLD"
       ELSE IF startsWith(upper, "TRIM") \/ upper = "REDUCE" \/ upper = "LIGHTEN" THEN "TRIM"
       ELSE "UNKNOWN"

\* num > 1 ? num / 100 : num
percentOrFraction(n) == IF n > Scale THEN n \div 100 ELSE n

parseProb(raw) ==
  CASE raw.t = "number" -> Some(percentOrFraction(raw.n))
    [] raw.t = "string" ->
         LET run == firstNumberRun(raw.s) IN
         IF run = "" THEN Null
         ELSE LET num == parseUnsigned(run) IN
              IF num = Null THEN Null ELSE Some(percentOrFraction(Val(num)))
    [] OTHER -> Null

\* mutant of normalizeHorizon: the one-week test comes before the two-week
\* test
normalizeHorizonWeekFirst(raw) ==
  IF ~Truthy(raw) THEN "24h"
  ELSE LET s == trim(toLowerCase(String(raw))) IN
       IF includes(s, "24") \/ includes(s, "1 day") \/ includes(s, "1d") \/ includes(s, "day") THEN "24h"
       ELSE IF includes(s, "1 week") \/ includes(s, "1w") \/ includes(s, "7d") \/ includes(s, "week") THEN "1w"
       ELSE IF includes(s, "2 week") \/ includes(s, "2w") \/ includes(s, "14d") \/ includes(s, "2-week") THEN "2w"
       ELSE IF includes(s, "month") \/ includes(s, "30d") \/ includes(s, "4w") THEN "1m"
       ELSE "24h"

normalizeHorizon(raw) ==
  IF ~Truthy(raw) THEN "24h"
  ELSE LET s == trim(toLowerCase(String(raw))) IN
       IF includes(s, "24") \/ includes(s, "1 day") \/ includes(s, "1d") \/ includes(s, "day") THEN "24h"
       ELSE IF includes(s, "2 week") \/ includes(s, "2w") \/ includes(s, "14d") \/ includes(s, "2-week") THEN "2w"
       ELSE IF includes(s, "1 week") \/ includes(s, "1w") \/ includes(s, "7d") \/ includes(s, "week") THEN "1w"
       ELSE IF includes(s, "month") \/ includes(s, "30d") \/ includes(s, "4w") THEN "1m"
       ELSE "24h"

horizonToDays(horizon) ==
  CASE horizon = "24h" -> 1
    [] horizon = "1w" -> 7
    [] horizon = "2w" -> 14
    [] horizon = "1m" -> 30
    [] OTHER -> 1

\* ------------------------------------------------------------- extraction
\* item[names[1]] || item[names[2]] || ... ; the last operand is returned
\* whatever it is
RECURSIVE OrChain(_, _)
OrChain(item, names) ==
  IF Len(names) = 1 THEN Get(item, names[1])
  ELSE Or(Get(item, names[1]), OrChain(item, Tail(names)))

\* Number.isFinite(parseFloat(x) || null) ? that number : null
levelOf(raw) ==
  LET v == parseFloat(raw) IN IF v = Null \/ v = Some(0) THEN Null ELSE v

\* mutant of expectedDirectionOf: a TRIM expects no move
expectedDirectionOfTrimFlat(action) ==
  IF action = "BUY" THEN Some("up")
  ELSE IF action = "SELL" THEN Some("down")
  ELSE IF action = "HOLD" \/ action = "TRIM" THEN Some("flat")
  ELSE Null

expectedDirectionOf(action) ==
  IF action = "BUY" THEN Some("up")
  ELSE IF action = "SELL" \/ action = "TRIM" THEN Some("down")
  ELSE IF action = "HOLD" THEN Some("flat")
  ELSE Null

\* parseActionItem: Null when the item is dropped, else Some(prediction)
parseActionItem(item, date, wallet) ==
  IF ~IsObjectLike(item) THEN Null
  ELSE
    LET symbol == trim(toUpperCase(String(
                    Or(OrChain(item, <<"symbol", "ticker", "name">>), Str("")))))
        action == normalizeAction(
                    OrChain(item, <<"action", "actionNow", "action_now", "recommendation">>))
        confidence == parseProb(OrChain(item, <<"confidence", "probability", "prob">>))
    IN IF symbol = "" THEN Null
       ELSE Some([
         date |-> date,
         symbol |-> symbol,
         wallet |-> wallet,
         action |-> action,
         confidence |-> round4(confidence),
         horizon |-> normalizeHorizon(
                       Or(OrChain(item, <<"horizon", "timeframe">>), Str("24h"))),
         expectedDirection |-> expectedDirectionOf(action),
         triggerLevel |-> levelOf(OrChain(item, <<"triggerLevel", "trigger", "entry", "triggerPrice">>)),
         stopLevel |-> levelOf(OrChain(item, <<"stopLevel", "stop", "invalidation", "stopLoss">>)),
         sizeChangePct |-> parseProb(OrChain(item, <<"sizeChange", "size_change", "sizing">>)),
         scenarioLabel |-> Null,
         resolved |-> FALSE,
         outcome |-> Null])

\* Array.isArray(v) ? the predictions of its items, in order : none
RECURSIVE parseItems(_, _, _)
parseItems(items, date, wallet) ==
  IF items = <<>> THEN <<>>
  ELSE parseActionItem(Head(items), date, wallet) \o parseItems(Tail(items), date, wallet)

parseActionList(v, date, wallet) ==
  IF v.t = "array" THEN parseItems(v.a, date, wallet) ELSE <<>>

\* Object.values(o)
RECURSIVE valuesOf(_)
valuesOf(kv) == IF kv = <<>> THEN <<>> ELSE <<Head(kv)[2]>> \o valuesOf(Tail(kv))

scenarioDirection(label) ==
  IF includes(label, "bull") THEN Some("up")
  ELSE IF includes(label, "bear") THEN Some("down")
  ELSE Some("flat")

scenarioPrediction(scenario, date, wallet) ==
  IF ~IsObjectLike(scenario) THEN <<>>
  ELSE
    LET label == toLowerCase(String(
                   Or(OrChain(scenario, <<"name", "label", "scenario">>), Str("unknown"))))
        prob == parseProb(OrChain(scenario, <<"probability", "prob", "likelihood">>))
    IN IF prob = Null THEN <<>>
       ELSE <<[
         date |-> date,
         symbol |-> "__SCENARIO__",
         wallet |-> wallet,
         action |-> "SCENARIO",
         confidence |-> round4(prob),
         horizon |-> normalizeHorizon(
                       Or(OrChain(scenario, <<"horizon", "timeframe">>), Str("2w"))),
         expectedDirection |-> scenarioDirection(label),
         triggerLevel |-> Null,
         stopLevel |-> Null,
         sizeChangePct |-> Null,
         scenarioLabel |-> Some(label),
         resolved |-> FALSE,
         outcome |-> Null]>>

RECURSIVE scenarioPredictions(_, _, _)
scenarioPredictions(list, date, wallet) ==
  IF list = <<>> THEN <<>>
  ELSE scenarioPrediction(Head(list), date, wallet)
       \o scenarioPredictions(Tail(list), date, wallet)

extractWalletScenarios(scenarioData, date, wallet) ==
  IF ~IsObjectLike(scenarioData) THEN <<>>
  ELSE scenarioPredictions(
         IF scenarioData.t = "array" THEN scenarioData.a ELSE valuesOf(scenarioData.kv),
         date, wallet)

RECURSIVE actionFields(_, _, _, _)
actionFields(wallet, fields, date, walletName) ==
  IF fields = <<>> THEN <<>>
  ELSE parseActionList(Get(wallet, Head(fields)), date, walletName)
       \o actionFields(wallet, Tail(fields), date, walletName)

extractActionsFromWallet(wallet, walletName, date) ==
  LET scenarioData == OrChain(wallet, <<"scenarios", "scenarioMatrix", "scenario_matrix">>)
  IN actionFields(wallet,
                  <<"actions", "actionPlan", "action_plan", "recommendations",
                    "holdings", "positions", "holdingActions", "holding_actions">>,
                  date, walletName)
     \o (IF Truthy(scenarioData)
         THEN extractWalletScenarios(scenarioData, date, walletName)
         ELSE <<>>)

\* the wallet sections of a document: <<wallet value, wallet name>> pairs
looksLikeWallet(key) ==
  LET lower == toLowerCase(key) IN
  \/ includes(lower, "wallet") \/ includes(lower, "us_equit")
  \/ includes(lower, "crypto") \/ includes(lower, "egx")
  \/ includes(lower, "thndr") \/ includes(lower, "equities")

RECURSIVE topLevelWallets(_)
topLevelWallets(kv) ==
  IF kv = <<>> THEN <<>>
  ELSE (IF looksLikeWallet(Head(kv)[1]) /\ IsObjectLike(Head(kv)[2])
        THEN << <<Head(kv)[2], Head(kv)[1]>> >> ELSE <<>>)
       \o topLevelWallets(Tail(kv))

RECURSIVE nestedWallets(_)
nestedWallets(list) ==
  IF list = <<>> THEN <<>>
  ELSE (IF IsObjectLike(Head(list))
        THEN << <<Head(list),
                  String(Or(OrChain(Head(list), <<"walletName", "wallet", "name">>),
                            Str("unknown")))>> >>
        ELSE <<>>)
       \o nestedWallets(Tail(list))

findWalletSections(data) ==
  IF ~IsObjectLike(data) THEN <<>>
  ELSE (IF data.t = "object" THEN topLevelWallets(data.kv) ELSE <<>>)
       \o (IF Get(data, "wallets").t = "array"
           THEN nestedWallets(Get(data, "wallets").a) ELSE <<>>)

RECURSIVE walletActions(_, _)
walletActions(sections, date) ==
  IF sections = <<>> THEN <<>>
  ELSE extractActionsFromWallet(Head(sections)[1], Head(sections)[2], date)
       \o walletActions(Tail(sections), date)

RECURSIVE topLevelActions(_, _, _)
topLevelActions(data, fields, date) ==
  IF fields = <<>> THEN <<>>
  ELSE parseActionList(Get(data, Head(fields)), date, "combined")
       \o topLevelActions(data, Tail(fields), date)

RECURSIVE extractScenarioFields(_, _, _)
extractScenarioFields(data, fields, date) ==
  IF fields = <<>> THEN <<>>
  ELSE (IF IsObjectLike(Get(data, Head(fields)))
        THEN extractWalletScenarios(Get(data, Head(fields)), date, "portfolio")
        ELSE <<>>)
       \o extractScenarioFields(data, Tail(fields), date)

extractScenarios(data, date) ==
  extractScenarioFields(data, <<"scenarioMatrix", "scenario_matrix", "scenarios">>, date)

\* the predictions of the three strategies, in the order the code finds them
discovered(aiData, date) ==
  walletActions(findWalletSections(aiData), date)
  \o topLevelActions(aiData, <<"actions", "recommendations", "actionPlan", "action_plan">>, date)
  \o extractScenarios(aiData, date)

\* the text the extractor deduplicates on
dedupKey(p) ==
  ToString(p.date) \o ":" \o p.symbol \o ":" \o p.horizon \o ":" \o p.wallet
  \o (IF p.scenarioLabel # Null /\ Val(p.scenarioLabel) # ""
      THEN ":" \o Val(p.scenarioLabel) ELSE "")

\* mutant of dedupFrom: the filter keeps every record
dedupNever(preds, seen) == preds

\* mutant of dedupFrom: of the records of a key the last one is kept
RECURSIVE dedupKeepLast(_, _)
dedupKeepLast(preds, seen) ==
  IF preds = <<>> THEN <<>>
  ELSE IF \E j \in 2..Len(preds) : dedupKey(preds[j]) = dedupKey(Head(preds))
  THEN dedupKeepLast(Tail(preds), seen)
  ELSE <<Head(preds)>> \o dedupKeepLast(Tail(preds), seen)

\* predictions.filter(first occurrence of its key)
RECURSIVE dedupFrom(_, _)
dedupFrom(preds, seen) ==
  IF preds = <<>> THEN <<>>
  ELSE LET key == dedupKey(Head(preds)) IN
       IF key \in seen THEN dedupFrom(Tail(preds), seen)
       ELSE <<Head(preds)>> \o dedupFrom(Tail(preds), seen \cup {key})

extractPredictions(aiData, date) ==
  IF ~IsObjectLike(aiData) THEN <<>>
  ELSE dedupFrom(discovered(aiData, date), {})

\* where extractPredictions throws: the conversions to a string of
\* parseActionItem, of extractWalletScenarios and of the key of the filter
parseActionItemThrows(item) ==
  /\ IsObjectLike(item)
  /\ LET symbolRaw == Or(OrChain(item, <<"symbol", "ticker", "name">>), Str(""))
         actionRaw == OrChain(item, <<"action", "actionNow", "action_now", "recommendation">>)
     IN \/ StringThrows(symbolRaw)
        \/ /\ trim(toUpperCase(String(symbolRaw))) # ""
           /\ \/ Truthy(actionRaw) /\ StringThrows(actionRaw)
              \/ StringThrows(OrChain(item, <<"triggerLevel", "trigger", "entry", "triggerPrice">>))
              \/ StringThrows(OrChain(item, <<"stopLevel", "stop", "invalidation", "stopLoss">>))
              \/ StringThrows(Or(OrChain(item, <<"horizon", "timeframe">>), Str("24h")))

parseActionListThrows(v) ==
  v.t = "array" /\ \E i \in 1..Len(v.a) : parseActionItemThrows(v.a[i])

scenarioPredictionThrows(scenario) ==
  /\ IsObjectLike(scenario)
  /\ \/ StringThrows(Or(OrChain(scenario, <<"name", "label", "scenario">>), Str("unknown")))
     \/ /\ parseProb(OrChain(scenario, <<"probability", "prob", "likelihood">>)) # Null
        /\ StringThrows(Or(OrChain(scenario, <<"horizon", "timeframe">>), Str("2w")))

extractWalletScenariosThrows(scenarioData) ==
  /\ IsObjectLike(scenarioData)
  /\ LET list == IF scenarioData.t = "array" THEN scenarioData.a
                 ELSE valuesOf(scenarioData.kv)
     IN \E i \in 1..Len(list) : scenarioPredictionThrows(list[i])

\* a wallet section; walletName is the name as the document gives it, which
\* the filter turns into a string for each prediction of the wallet
extractActionsFromWalletThrows(wallet, walletName, date) ==
  \/ \E field \in {"actions", "actionPlan", "action_plan", "recommendations",
                   "holdings", "positions", "holdingActions", "holding_actions"} :
       parseActionListThrows(Get(wallet, field))
  \/ extractWalletScenariosThrows(
       OrChain(wallet, <<"scenarios", "scenarioMatrix", "scenario_matrix">>))
  \/ /\ StringThrows(walletName)
     /\ extractActionsFromWallet(wallet, "", date) # <<>>

extractPredictionsThrows(aiData, date) ==
  /\ IsObjectLike(aiData)
  /\ \/ /\ aiData.t = "object"
        /\ \E i \in 1..Len(aiData.kv) :
             /\ looksLikeWallet(aiData.kv[i][1]) /\ IsObjectLike(aiData.kv[i][2])
             /\ extractActionsFromWalletThrows(aiData.kv[i][2], Str(aiData.kv[i][1]), date)
     \/ /\ Get(aiData, "wallets").t = "array"
        /\ \E i \in 1..Len(Get(aiData, "wallets").a) :
             LET w == Get(aiData, "wallets").a[i] IN
             /\ IsObjectLike(w)
             /\ extractActionsFromWalletThrows(
                  w, Or(OrChain(w, <<"walletName", "wallet", "name">>), Str("unknown")), date)
     \/ \E field \in {"actions", "recommendations", "actionPlan", "action_plan"} :
          parseActionListThrows(Get(aiData, field))
     \/ \E field \in {"scenarioMatrix", "scenario_matrix", "scenarios"} :
          extractWalletScenariosThrows(Get(aiData, field))

\* ------------------------------------------------------------- resolution
\* files of the reports directory: no file, text that JSON.parse rejects, or
\* a JSON value
Absent == [f |-> "absent"]
Garbage == [f |-> "garbage"]
Json(v) == [f |-> "json", v |-> v]

\* loadJson: the parsed value, null when the file is missing or unparsable
loadJson(file) == IF file.f = "json" THEN file.v ELSE JsNull

\* x ?? 0 of a numeric field
orZero(raw) == IF raw.t \in {"undefined", "null"} THEN 0 ELSE raw.n

positionOf(pos) ==
  [symbol |-> String(Get(pos, "symbol")),
   marketValue |-> orZero(Get(pos, "marketValue")),
   pnl |-> orZero(Get(pos, "pnl")),
   pnlPct |-> orZero(Get(pos, "pnlPct")),
   spent |-> orZero(Get(pos, "spent")),
   quantity |-> orZero(Get(pos, "quantity"))]

positionsOf(report) == Get(Get(report, "combined"), "positions")

\* buildPositionMap throws a TypeError when positions is truthy and cannot be
\* iterated (a number, an object), or when an element has no properties
\* (null); a string is iterated character by character
buildPositionMapThrows(report) ==
  LET positions == positionsOf(report) IN
  IF ~Truthy(positions) \/ positions.t = "string" THEN FALSE
  ELSE IF positions.t # "array" THEN TRUE
  ELSE \E i \in 1..Len(positions.a) : positions.a[i].t \in {"null", "undefined"}

\* the Map symbol -> position; a later entry of a symbol replaces an earlier
buildPositionMap(report) ==
  LET positions == positionsOf(report) IN
  IF ~Truthy(positions) THEN << >>
  ELSE IF positions.t = "string" THEN [sym \in {"undefined"} |-> positionOf(positions)]
  ELSE IF positions.t # "array" THEN << >>
  ELSE LET syms == {String(Get(positions.a[i], "symbol")) : i \in 1..Len(positions.a)}
           last(sym) == CHOOSE i \in 1..Len(positions.a) :
                          /\ String(Get(positions.a[i], "symbol")) = sym
                          /\ \A j \in (i + 1)..Len(positions.a) :
                               String(Get(positions.a[j], "symbol")) # sym
       IN [sym \in syms |-> positionOf(positions.a[last(sym)])]

DeadZone == 500

directionOf(change) ==
  IF change # Null /\ Val(change) > DeadZone THEN "up"
  ELSE IF change # Null /\ Val(change) < 0 - DeadZone THEN "down"
  ELSE "flat"

RECURSIVE sumMarketValue(_, _)
sumMarketValue(map, syms) ==
  IF syms = {} THEN 0
  ELSE LET sym == CHOOSE x \in syms : TRUE IN
       map[sym].marketValue + sumMarketValue(map, syms \ {sym})

resolveScenarioPrediction(prediction, beforePositions, afterPositions, resolvedDate) ==
  IF prediction.resolved THEN prediction
  ELSE
    LET totalMvBefore == sumMarketValue(beforePositions, DOMAIN beforePositions)
        totalMvAfter == sumMarketValue(afterPositions, DOMAIN afterPositions)
        mvChange == totalMvAfter - totalMvBefore
        \* mvChangePct = mvChange / totalMvBefore, compared exactly
        isUp == totalMvBefore > 0 /\ mvChange * Scale > DeadZone * totalMvBefore
        isDown == totalMvBefore > 0 /\ mvChange * Scale < (0 - DeadZone) * totalMvBefore
        actualDirection == IF isUp THEN "up" ELSE IF isDown THEN "down" ELSE "flat"
        \* Math.round(mvChangePct * 10000) / 10000
        pctRounded == IF totalMvBefore > 0
                      THEN ((2 * mvChange * Round4Unit + totalMvBefore)
                              \div (2 * totalMvBefore)) * (Scale \div Round4Unit)
                      ELSE 0
    IN [prediction EXCEPT
          !.resolved = TRUE,
          !.outcome = Some([
             resolvedDate |-> resolvedDate,
             actualDirection |-> actualDirection,
             pnlPctChange |-> Some(pctRounded),
             mvChange |-> round4(Some(mvChange * Scale)),
             correct |-> (prediction.expectedDirection = Some(actualDirection)),
             stopHit |-> FALSE,
             positionExited |-> FALSE,
             positionEntered |-> FALSE])]

\* mutant of correctOf: an up call is correct unless the direction is down
correctOfUpUnlessDown(prediction, actualDirection, hasAfter) ==
  LET expected == prediction.expectedDirection IN
  \/ expected = Some("up") /\ actualDirection # "down"
  \/ expected = Some("down") /\ (actualDirection = "down" \/ ~hasAfter)
  \/ expected = Some("flat") /\ actualDirection = "flat"
  \/ prediction.action = "HOLD" /\ actualDirection # "down"

\* mutant of correctOf: a HOLD is correct only when the direction is flat
correctOfHoldFlatOnly(prediction, actualDirection, hasAfter) ==
  LET expected == prediction.expectedDirection IN
  \/ expected = Some("up") /\ actualDirection = "up"
  \/ expected = Some("down") /\ (actualDirection = "down" \/ ~hasAfter)
  \/ expected = Some("flat") /\ actualDirection = "flat"

\* mutant of correctOf: an exit does not confirm a down call
correctOfNoExit(prediction, actualDirection, hasAfter) ==
  LET expected == prediction.expectedDirection IN
  \/ expected = Some("up") /\ actualDirection = "up"
  \/ expected = Some("down") /\ actualDirection = "down"
  \/ expected = Some("flat") /\ actualDirection = "flat"
  \/ prediction.action = "HOLD" /\ actualDirection # "down"

\* the correctness rules of resolvePrediction; hasAfter tells that the after
\* map holds the symbol
correctOf(prediction, actualDirection, hasAfter) ==
  LET expected == prediction.expectedDirection IN
  \/ expected = Some("up") /\ actualDirection = "up"
  \/ expected = Some("down") /\ (actualDirection = "down" \/ ~hasAfter)
  \/ expected = Some("flat") /\ actualDirection = "flat"
  \/ prediction.action = "HOLD" /\ actualDirection # "down"

\* resolvePrediction past its two early exits: a prediction on a symbol
resolveSymbolPrediction(prediction, beforePositions, afterPositions, resolvedDate) ==
    LET hasBefore == prediction.symbol \in DOMAIN beforePositions
        hasAfter == prediction.symbol \in DOMAIN afterPositions
    IN
    IF ~hasBefore /\ ~hasAfter THEN prediction
    ELSE
      LET beforePnlPct == IF hasBefore THEN beforePositions[prediction.symbol].pnlPct ELSE 0
          afterPnlPct == IF hasAfter THEN afterPositions[prediction.symbol].pnlPct ELSE 0
          pnlPctChange == round4(Some(afterPnlPct - beforePnlPct))
          beforeMV == IF hasBefore THEN beforePositions[prediction.symbol].marketValue ELSE 0
          afterMV == IF hasAfter THEN afterPositions[prediction.symbol].marketValue ELSE 0
          mvChange == round4(Some((afterMV - beforeMV) * Scale))
          actualDirection == directionOf(pnlPctChange)
          expected == prediction.expectedDirection
          correct == correctOf(prediction, actualDirection, hasAfter)
          after == afterPositions[prediction.symbol]
          \* impliedPrice = quantity > 0 ? marketValue / quantity : 0, compared
          \* with the stop level without dividing
          priceBelowStop == IF after.quantity > 0
                            THEN after.marketValue * Scale < Val(prediction.stopLevel) * after.quantity
                            ELSE 0 < Val(prediction.stopLevel)
          priceAboveStop == IF after.quantity > 0
                            THEN after.marketValue * Scale > Val(prediction.stopLevel) * after.quantity
                            ELSE 0 > Val(prediction.stopLevel)
          stopHit ==
            /\ prediction.stopLevel # Null /\ hasAfter
            /\ \/ expected = Some("up") /\ priceBelowStop
               \/ expected = Some("down") /\ priceAboveStop
      IN [prediction EXCEPT
            !.resolved = TRUE,
            !.outcome = Some([
               resolvedDate |-> resolvedDate,
               actualDirection |-> actualDirection,
               pnlPctChange |-> pnlPctChange,
               mvChange |-> mvChange,
               correct |-> correct,
               stopHit |-> stopHit,
               positionExited |-> (hasBefore /\ ~hasAfter),
               positionEntered |-> (~hasBefore /\ hasAfter)])]

\* mutant of resolvePrediction: a prediction on a symbol is resolved only
\* when both maps hold the symbol
resolvePredictionHeldBoth(prediction, beforePositions, afterPositions, resolvedDate) ==
  IF prediction.resolved THEN prediction
  ELSE IF prediction.action = "SCENARIO"
  THEN resolveScenarioPrediction(prediction, beforePositions, afterPositions, resolvedDate)
  ELSE IF prediction.symbol \notin DOMAIN beforePositions
          \/ prediction.symbol \notin DOMAIN afterPositions
  THEN prediction
  ELSE resolveSymbolPrediction(prediction, beforePositions, afterPositions, resolvedDate)

\* mutant of resolvePrediction: the correctness rules of a prediction on a
\* symbol, exit shortcut included, are applied to a scenario
resolvePredictionExitShortcut(prediction, beforePositions, afterPositions, resolvedDate) ==
  IF prediction.resolved THEN prediction
  ELSE IF prediction.action = "SCENARIO"
  THEN LET r == resolveScenarioPrediction(prediction, beforePositions, afterPositions,
                                          resolvedDate)
       IN [r EXCEPT !.outcome =
             Some([Val(r.outcome) EXCEPT
                     !.correct = correctOf(prediction, Val(r.outcome).actualDirection,
                                           prediction.symbol \in DOMAIN afterPositions)])]
  ELSE resolveSymbolPrediction(prediction, beforePositions, afterPositions, resolvedDate)

\* mutant of resolvePrediction: a resolved prediction is processed again
resolvePredictionReprocess(prediction, beforePositions, afterPositions, resolvedDate) ==
  IF prediction.action = "SCENARIO"
  THEN resolveScenarioPrediction([prediction EXCEPT !.resolved = FALSE],
                                 beforePositions, afterPositions, resolvedDate)
  ELSE resolveSymbolPrediction(prediction, beforePositions, afterPositions, resolvedDate)

resolvePrediction(prediction, beforePositions, afterPositions, resolvedDate) ==
  IF prediction.resolved THEN prediction
  ELSE IF prediction.action = "SCENARIO"
  THEN resolveScenarioPrediction(prediction, beforePositions, afterPositions, resolvedDate)
  ELSE resolveSymbolPrediction(prediction, beforePositions, afterPositions, resolvedDate)

\* ------------------------------------------------ accuracy and calibration
isResolved(p) == p.resolved /\ p.outcome # Null
isCorrect(p) == Val(p.outcome).correct
resolvedOf(predictions) == SelectSeq(predictions, isResolved)
correctCount(resolved) == Len(SelectSeq(resolved, isCorrect))

\* mutant of ratio4: the ratio is cut after four decimals
ratio4Cut(n, d) ==
  Some(((n * Round4Unit) \div d) * (Scale \div Round4Unit))

\* round4(n / d) of whole numbers n >= 0 and d > 0
ratio4(n, d) ==
  Some(((2 * n * Round4Unit + d) \div (2 * d)) * (Scale \div Round4Unit))

\* the distinct members of a list in the order they first occur: the key
\* order of a Map, and of an object with keys that are not array indices
RECURSIVE firstOccurrences(_, _)
firstOccurrences(keys, seen) ==
  IF keys = <<>> THEN <<>>
  ELSE IF Head(keys) \in seen THEN firstOccurrences(Tail(keys), seen)
  ELSE <<Head(keys)>> \o firstOccurrences(Tail(keys), seen \cup {Head(keys)})

RECURSIVE ascending(_)
ascending(S) ==
  IF S = {} THEN <<>>
  ELSE LET least == CHOOSE x \in S : \A y \in S : x <= y
       IN <<least>> \o ascending(S \ {least})

statsOf(group) ==
  LET correct == correctCount(group) IN
  [total |-> Len(group), correct |-> correct, accuracy |-> ratio4(correct, Len(group))]

\* groupAccuracy: the object key -> {total, correct, accuracy} as the list
\* of its entries; the key function selects a field of the prediction
groupAccuracy(resolved, field) ==
  LET keys == firstOccurrences([i \in 1..Len(resolved) |-> resolved[i][field]], {})
      group(key) == SelectSeq(resolved, LAMBDA p : p[field] = key)
  IN [i \in 1..Len(keys) |-> [key |-> keys[i], stats |-> statsOf(group(keys[i]))]]

\* mutant of bandOf: the confidence is cut after its first decimal
bandOfCut(confidence) ==
  ((Val(confidence) * 10) \div Scale) * (Scale \div 10)

\* Math.round(confidence * 10) / 10
bandOf(confidence) ==
  ((Val(confidence) * 10 + Scale \div 2) \div Scale) * (Scale \div 10)

\* round4(Math.abs(band - correct / total))
gapOf(band, correct, total) ==
  LET unit == Scale \div Round4Unit
      diff == band * total - correct * Scale
      abs == IF diff < 0 THEN 0 - diff ELSE diff
  IN Some(((2 * abs + unit * total) \div (2 * unit * total)) * unit)

computeCalibration(resolved) ==
  LET rated == SelectSeq(resolved, LAMBDA p : p.confidence # Null)
      bands == ascending({bandOf(rated[i].confidence) : i \in 1..Len(rated)})
      bucket(band) == SelectSeq(rated, LAMBDA p : bandOf(p.confidence) = band)
  IN [i \in 1..Len(bands) |->
        LET data == statsOf(bucket(bands[i])) IN
        [predictedProb |-> bands[i],
         actualRate |-> data.accuracy,
         sampleSize |-> data.total,
         gap |-> gapOf(bands[i], data.correct, data.total)]]

computeAccuracy(predictions) ==
  LET resolved == resolvedOf(predictions) IN
  IF Len(resolved) = 0
  THEN [totalPredictions |-> Len(predictions),
        resolvedCount |-> 0,
        unresolvedCount |-> Len(predictions),
        overall |-> Null,
        byAction |-> <<>>, byHorizon |-> <<>>, byWallet |-> <<>>, bySymbol |-> <<>>,
        calibration |-> <<>>]
  ELSE [totalPredictions |-> Len(predictions),
        resolvedCount |-> Len(resolved),
        unresolvedCount |-> Len(predictions) - Len(resolved),
        overall |-> ratio4(correctCount(resolved), Len(resolved)),
        byAction |-> groupAccuracy(resolved, "action"),
        byHorizon |-> groupAccuracy(resolved, "horizon"),
        byWallet |-> groupAccuracy(resolved, "wallet"),
        bySymbol |-> groupAccuracy(resolved, "symbol"),
        calibration |-> computeCalibration(resolved)]

\* ----------------------------------------------------------------- insights
\* (x * 100).toFixed(0) of a fraction x >= 0
percentText(x) == ToString((x * 100 + Scale \div 2) \div Scale)

\* x >= n / 10 and x < n / 10 of a fraction x
atLeastTenths(x, n) == x * 10 >= n * Scale
belowTenths(x, n) == x * 10 < n * Scale

overallInsight(overall) ==
  IF overall = Null THEN <<>>
  ELSE IF atLeastTenths(Val(overall), 7)
  THEN <<"Overall accuracy is strong at " \o percentText(Val(overall))
         \o "%. Maintain current analytical approach.">>
  ELSE IF atLeastTenths(Val(overall), 5)
  THEN <<"Overall accuracy is moderate at " \o percentText(Val(overall))
         \o "%. Look for patterns in incorrect predictions to improve.">>
  ELSE <<"Overall accuracy is below 50% at " \o percentText(Val(overall))
         \o "%. Consider inverting or re-evaluating the analytical framework.">>

RECURSIVE actionInsights(_)
actionInsights(byAction) ==
  IF byAction = <<>> THEN <<>>
  ELSE
    LET action == Head(byAction).key
        stats == Head(byAction).stats
    IN (IF stats.total < 2 \/ action = "SCENARIO" THEN <<>>
        ELSE IF belowTenths(Val(stats.accuracy), 4)
        THEN <<action \o " recommendations have low accuracy ("
               \o percentText(Val(stats.accuracy)) \o "% over " \o ToString(stats.total)
               \o " calls). Consider raising the conviction threshold before issuing "
               \o action \o " calls.">>
        ELSE IF 4 * Val(stats.accuracy) >= 3 * Scale
        THEN <<action \o " recommendations are highly reliable ("
               \o percentText(Val(stats.accuracy)) \o "% over " \o ToString(stats.total)
               \o " calls). Lean into this strength.">>
        ELSE <<>>)
       \o actionInsights(Tail(byAction))

\* entries.map(([s, st]) => `${s} (${pct}%)`).join(", ")
RECURSIVE symbolNames(_)
symbolNames(entries) ==
  IF entries = <<>> THEN ""
  ELSE Head(entries).key \o " (" \o percentText(Val(Head(entries).stats.accuracy)) \o "%)"
       \o (IF Len(entries) > 1 THEN ", " ELSE "") \o symbolNames(Tail(entries))

symbolInsights(bySymbol) ==
  LET symbolEntries == SelectSeq(bySymbol, LAMBDA e : e.key # "__SCENARIO__")
      poorSymbols == SelectSeq(symbolEntries,
                       LAMBDA e : e.stats.total >= 3 /\ belowTenths(Val(e.stats.accuracy), 4))
      strongSymbols == SelectSeq(symbolEntries,
                         LAMBDA e : e.stats.total >= 3 /\ 4 * Val(e.stats.accuracy) >= 3 * Scale)
  IN (IF Len(poorSymbols) > 0
      THEN <<"Consistently poor accuracy on: " \o symbolNames(poorSymbols)
             \o ". These symbols may need a different analytical lens or more conservative sizing.">>
      ELSE <<>>)
     \o (IF Len(strongSymbols) > 0
         THEN <<"Strong track record on: " \o symbolNames(strongSymbols)
                \o ". Higher conviction warranted on these symbols.">>
         ELSE <<>>)

RECURSIVE sumGaps(_)
sumGaps(calibration) ==
  IF calibration = <<>> THEN 0
  ELSE Val(Head(calibration).gap) + sumGaps(Tail(calibration))

calibrationInsights(calibration) ==
  IF Len(calibration) < 2 THEN <<>>
  ELSE
    LET n == Len(calibration)
        \* avgGap = sumGaps / n; avgGap > 0.15; (avgGap * 100).toFixed(0)
        gapIsLarge == 100 * sumGaps(calibration) > 15 * Scale * n
        gapText == ToString((2 * 100 * sumGaps(calibration) + n * Scale) \div (2 * n * Scale))
        overconfident == SelectSeq(calibration,
                           LAMBDA c : /\ 10 * c.predictedProb > 10 * Val(c.actualRate) + Scale
                                      /\ c.sampleSize >= 3)
        underconfident == SelectSeq(calibration,
                            LAMBDA c : /\ 10 * Val(c.actualRate) > 10 * c.predictedProb + Scale
                                       /\ c.sampleSize >= 3)
    IN (IF gapIsLarge
        THEN <<"Confidence calibration is off by " \o gapText
               \o "pp on average. Predicted probabilities don't match actual hit rates.">>
        ELSE <<>>)
       \o (IF Len(overconfident) > 0
           THEN <<"Tendency toward overconfidence detected. When stating high-confidence predictions, actual accuracy is lower than claimed.">>
           ELSE <<>>)
       \o (IF Len(underconfident) > 0
           THEN <<"Tendency toward under-confidence detected. Some cautious predictions actually perform better than expected. Consider sizing up on these.">>
           ELSE <<>>)

biasInsights(resolved) ==
  LET upPredictions == SelectSeq(resolved, LAMBDA p : p.expectedDirection = Some("up"))
      downPredictions == SelectSeq(resolved, LAMBDA p : p.expectedDirection = Some("down"))
      upCorrect == correctCount(upPredictions)
      downCorrect == correctCount(downPredictions)
      \* rate < 0.4 and rate >= 0.5 of rate = correct / length
      low(correct, length) == 10 * correct < 4 * length
      fair(correct, length) == 2 * correct >= length
  IN IF Len(upPredictions) = 0 \/ Len(downPredictions) = 0 THEN <<>>
     ELSE (IF low(upCorrect, Len(upPredictions)) /\ fair(downCorrect, Len(downPredictions))
           THEN <<"Bullish bias detected: bearish calls are more accurate than bullish ones. Apply extra skepticism to BUY recommendations.">>
           ELSE <<>>)
          \o (IF low(downCorrect, Len(downPredictions)) /\ fair(upCorrect, Len(upPredictions))
              THEN <<"Bearish bias detected: bullish calls are more accurate than bearish ones. Apply extra skepticism to SELL/TRIM recommendations.">>
              ELSE <<>>)

RECURSIVE walletInsights(_)
walletInsights(byWallet) ==
  IF byWallet = <<>> THEN <<>>
  ELSE
    LET wallet == Head(byWallet).key
        stats == Head(byWallet).stats
    IN (IF stats.total >= 3 /\ belowTenths(Val(stats.accuracy), 4)
        THEN <<"Wallet \"" \o wallet \o "\" analysis underperforms ("
               \o percentText(Val(stats.accuracy))
               \o "% accuracy). Reevaluate the analytical approach for this market/asset class.">>
        ELSE <<>>)
       \o walletInsights(Tail(byWallet))

generateInsights(accuracy, predictions) ==
  IF Len(resolvedOf(predictions)) < 3
  THEN <<"Not enough resolved predictions yet to generate meaningful insights. Keep running daily analyses.">>
  ELSE overallInsight(accuracy.overall)
       \o actionInsights(accuracy.byAction)
       \o symbolInsights(accuracy.bySymbol)
       \o calibrationInsights(accuracy.calibration)
       \o biasInsights(resolvedOf(predictions))
       \o walletInsights(accuracy.byWallet)

\* ---------------------------------------------------------- recommendations
Recommendation(priority, category, recommendation) ==
  [priority |-> priority, category |-> category, recommendation |-> recommendation]

RECURSIVE actionRecommendations(_)
actionRecommendations(byAction) ==
  IF byAction = <<>> THEN <<>>
  ELSE
    LET action == Head(byAction).key
        stats == Head(byAction).stats
    IN (IF action # "SCENARIO" /\ stats.total >= 3 /\ belowTenths(Val(stats.accuracy), 4)
        THEN <<Recommendation("high", "action_type",
                 "Reduce " \o action
                 \o " frequency or raise conviction threshold. Current accuracy: "
                 \o percentText(Val(stats.accuracy)) \o "% over " \o ToString(stats.total)
                 \o " calls.")>>
        ELSE <<>>)
       \o actionRecommendations(Tail(byAction))

\* mutant of generateRecommendations: the need-more-data gate is at three
\* resolved predictions
generateRecommendationsGateThree(accuracy, insights) ==
  IF accuracy.resolvedCount < 3
  THEN <<Recommendation("high", "data",
           "Continue running daily AI analysis to build up a meaningful prediction history. At least 5-10 resolved predictions needed for reliable insights.")>>
  ELSE (IF \E i \in 1..Len(accuracy.calibration) :
             /\ 10 * Val(accuracy.calibration[i].gap) > 2 * Scale
             /\ accuracy.calibration[i].sampleSize >= 3
        THEN <<Recommendation("high", "calibration",
                 "Adjust confidence levels in predictions. Large gap between stated confidence and actual accuracy detected. Use past accuracy rates as priors.")>>
        ELSE <<>>)
       \o actionRecommendations(accuracy.byAction)
       \o (IF accuracy.overall # Null /\ belowTenths(Val(accuracy.overall), 5)
           THEN <<Recommendation("critical", "strategy",
                    "Overall prediction accuracy below 50%. Consider: (1) narrowing prediction scope to highest-conviction calls only, (2) increasing use of HOLD over active BUY/SELL, (3) using wider stop levels.")>>
           ELSE <<>>)

generateRecommendations(accuracy, insights) ==
  IF accuracy.resolvedCount < 5
  THEN <<Recommendation("high", "data",
           "Continue running daily AI analysis to build up a meaningful prediction history. At least 5-10 resolved predictions needed for reliable insights.")>>
  ELSE (IF \E i \in 1..Len(accuracy.calibration) :
             /\ 10 * Val(accuracy.calibration[i].gap) > 2 * Scale
             /\ accuracy.calibration[i].sampleSize >= 3
        THEN <<Recommendation("high", "calibration",
                 "Adjust confidence levels in predictions. Large gap between stated confidence and actual accuracy detected. Use past accuracy rates as priors.")>>
        ELSE <<>>)
       \o actionRecommendations(accuracy.byAction)
       \o (IF accuracy.overall # Null /\ belowTenths(Val(accuracy.overall), 5)
           THEN <<Recommendation("critical", "strategy",
                    "Overall prediction accuracy below 50%. Consider: (1) narrowing prediction scope to highest-conviction calls only, (2) increasing use of HOLD over active BUY/SELL, (3) using wider stop levels.")>>
           ELSE <<>>)

\* mutant of dailyScoresOf: the predictions of a date are counted whether
\* resolved or not
dailyScoresOfIssued(predictions) ==
  LET dates == ascending({predictions[i].date : i \in 1..Len(predictions)})
      ofDate(d) == SelectSeq(predictions, LAMBDA p : p.date = d)
  IN [i \in 1..Len(dates) |->
        [date |-> dates[i],
         total |-> Len(ofDate(dates[i])),
         correct |-> correctCount(resolvedOf(ofDate(dates[i]))),
         accuracy |-> ratio4(correctCount(resolvedOf(ofDate(dates[i]))),
                             Len(ofDate(dates[i])))]]

\* step 5 of updateLearningLedger: the score of each issue date that has a
\* resolved prediction, in date order
dailyScoresOf(predictions) ==
  LET resolved == resolvedOf(predictions)
      dates == ascending({resolved[i].date : i \in 1..Len(resolved)})
      ofDate(d) == SelectSeq(resolved, LAMBDA p : p.date = d)
  IN [i \in 1..Len(dates) |->
        LET data == statsOf(ofDate(dates[i])) IN
        [date |-> dates[i], total |-> data.total, correct |-> data.correct,
         accuracy |-> data.accuracy]]

\* ------------------------------------------------ the modelled input files
Position(symbol, pnlPct, marketValue, quantity) ==
  Obj(<< <<"symbol", Str(symbol)>>, <<"quantity", Num(quantity)>>,
         <<"marketValue", Num(marketValue)>>, <<"pnlPct", Num(pnlPct)>> >>)
Report(positions) ==
  Obj(<< <<"baseCurrency", Str("USD")>>,
         <<"combined", Obj(<< <<"positions", positions>> >>)>> >>)

\* pnlPct 0.10 / 0.10504 / 0.106 for AAPL, 0.25 / 0.24496 / sold for BTC
ReportA == Report(Arr(<<Position("AAPL", 10000, 3000, 10), Position("BTC", 25000, 5000, 1)>>))
ReportB == Report(Arr(<<Position("AAPL", 10504, 3300, 10), Position("BTC", 24496, 4000, 1)>>))
ReportC == Report(Arr(<<Position("AAPL", 10600, 3320, 10)>>))
\* parses, but combined.positions is not a list
ReportBad == Report(Num(3 * Scale))

\* the state names a file by what it holds
SnapshotContents == {"absent", "garbage", "reportA", "reportB", "reportC", "reportBad"}
snapshotFile(name) ==
  CASE name = "absent" -> Absent
    [] name = "garbage" -> Garbage
    [] name = "reportA" -> Json(ReportA)
    [] name = "reportB" -> Json(ReportB)
    [] name = "reportC" -> Json(ReportC)
    [] name = "reportBad" -> Json(ReportBad)

Action(symbol, action, confidence, horizon) ==
  Obj(<< <<"symbol", symbol>>, <<"action", action>>,
         <<"confidence", confidence>>, <<"horizon", horizon>> >>)

DocA ==
  Obj(<< <<"wallets", Arr(<<
            Obj(<< <<"walletName", Str("W1")>>,
                   <<"actions", Arr(<<
                       Action(Str("aapl"), Str("buy"), Num(70000), Str("24h")),
                       Action(Str("BTC"), Str("Sell now"), Str("60%"), Undef),
                       Action(Str(" AAPL"), Str("ADD"), Num(50000), Str("1 day"))>>)>> >>)>>)>>,
         <<"actions", Arr(<<
            Action(Str("AAPL"), Str("hold"), Num(80 * Scale), Str("1 week"))>>)>>,
         <<"scenarioMatrix", Arr(<<
            Obj(<< <<"name", Str("Bull case")>>, <<"probability", Num(50000)>>,
                   <<"horizon", Str("24h")>> >>)>>)>> >>)

DocB ==
  Obj(<< <<"crypto_book", Obj(<<
            <<"holdings", Arr(<<
                Action(Str("XYZ"), Str("Buy"), Str("~70%"), Str("24h")),
                JsNull,
                Action(Undef, Str("sell"), Undef, Undef),
                Obj(<< <<"ticker", Str("btc")>>, <<"actionNow", Str("Maintain")>>,
                       <<"stop", Str("4500")>> >>)>>)>> >>)>> >>)

\* an item whose symbol is an object with a key toString
DocOdd ==
  Obj(<< <<"actions", Arr(<<
            Action(Obj(<< <<"toString", Num(Scale)>> >>), Str("buy"), Undef, Undef)>>)>> >>)

DocContents == {"absent", "garbage", "docA", "docB", "docOdd"}
docFile(name) ==
  CASE name = "absent" -> Absent
    [] name = "garbage" -> Garbage
    [] name = "docA" -> Json(DocA)
    [] name = "docB" -> Json(DocB)
    [] name = "docOdd" -> Json(DocOdd)

\* what the pure functions return on the modelled files, computed once
extractedTable ==
  [name \in DocContents |->
     [d \in IssueDates |-> extractPredictions(loadJson(docFile(name)), d)]]
extractedThrowsTable ==
  [name \in DocContents |-> extractPredictionsThrows(loadJson(docFile(name)), 1)]
positionMapTable ==
  [name \in SnapshotContents |-> buildPositionMap(loadJson(snapshotFile(name)))]
positionMapThrowsTable ==
  [name \in SnapshotContents |-> buildPositionMapThrows(loadJson(snapshotFile(name)))]

\* ------------------------------------------------------------------- state
VARIABLES
  ledgerFile,   \* ai-learning.json: Absent, Garbage or Json(ledger)
  snapshots,    \* date -> what <date>.json holds, one of SnapshotContents
  aiDocs,       \* date -> what <date>.ai.json holds, one of DocContents
  lastRun,      \* how the last updateLearningLedger call ended
  writes,       \* the number of files written to the directory so far
  call          \* a call of an exported function on its own: arguments and result

vars == <<ledgerFile, snapshots, aiDocs, lastRun, writes, call>>

\* no call of an exported function on its own is under way
NoCall == [fn |-> "none"]

emptyLedger ==
  [version |-> 1, lastUpdated |-> Null, predictions |-> <<>>,
   accuracy |-> Null, insights |-> <<>>, recommendations |-> <<>>, dailyScores |-> <<>>]

\* loadLedger: the stored ledger when it parses and has a truthy version,
\* else a fresh one
loadLedger(file) ==
  IF file.f = "json" /\ file.v.version # 0 THEN file.v ELSE emptyLedger

\* listReportDates / listAiDates: the dates that have a file, ascending
listReportDates(files) == {d \in DOMAIN files : files[d] # "absent"}
listAiDates(files) == {d \in DOMAIN files : files[d] # "absent"}

Min(S) == CHOOSE x \in S : \A y \in S : x <= y

\* mutant of extractNew: documents of dates already in the ledger are
\* extracted again
RECURSIVE extractNewAgain(_, _, _)
extractNewAgain(docs, aiDates, existingPredictionDates) ==
  IF aiDates = {} THEN <<>>
  ELSE LET aiDate == Min(aiDates)
           aiData == loadJson(docFile(docs[aiDate]))
       IN (IF ~Truthy(aiData) THEN <<>> ELSE extractedTable[docs[aiDate]][aiDate])
          \o extractNewAgain(docs, aiDates \ {aiDate}, existingPredictionDates)

\* step 1 of updateLearningLedger: the predictions of the documents whose
\* date has no prediction in the loaded ledger, in ascending date order
RECURSIVE extractNew(_, _, _)
extractNew(docs, aiDates, existingPredictionDates) ==
  IF aiDates = {} THEN <<>>
  ELSE LET aiDate == Min(aiDates)
           aiData == loadJson(docFile(docs[aiDate]))
       IN (IF aiDate \in existingPredictionDates \/ ~Truthy(aiData) THEN <<>>
           ELSE extractedTable[docs[aiDate]][aiDate])
          \o extractNew(docs, aiDates \ {aiDate}, existingPredictionDates)

targetDate(pred) == pred.date + horizonToDays(pred.horizon)

\* mutant of findResolveDate: the latest snapshot on or after the target
findResolveDateLatest(allFactualDates, target) ==
  LET later == {d \in allFactualDates : d >= target} IN
  IF later = {} THEN Null ELSE Some(CHOOSE x \in later : \A y \in later : y <= x)

\* allFactualDates.find((d) => d >= targetDate) ?? null
findResolveDate(allFactualDates, target) ==
  LET later == {d \in allFactualDates : d >= target} IN
  IF later = {} THEN Null ELSE Some(Min(later))

\* what the file <d>.json holds
fileAt(files, d) == IF d \in DOMAIN files THEN files[d] ELSE "absent"

\* mutant of reportsFor: a snapshot later than the current date is used
reportsForFuture(pred, files, currentDate) ==
  LET resolveDate == findResolveDate(listReportDates(files), targetDate(pred)) IN
  IF pred.resolved \/ resolveDate = Null THEN Null
  ELSE LET beforeReport == loadJson(snapshotFile(fileAt(files, pred.date)))
           afterReport == loadJson(snapshotFile(fileAt(files, Val(resolveDate))))
       IN IF ~Truthy(beforeReport) \/ ~Truthy(afterReport) THEN Null
          ELSE Some([before |-> fileAt(files, pred.date),
                     after |-> fileAt(files, Val(resolveDate)),
                     resolveDate |-> Val(resolveDate)])

\* mutant of reportsFor: a snapshot of the current date is not used yet
reportsForStrict(pred, files, currentDate) ==
  LET resolveDate == findResolveDate(listReportDates(files), targetDate(pred)) IN
  IF pred.resolved \/ resolveDate = Null THEN Null
  ELSE IF Val(resolveDate) >= currentDate THEN Null
  ELSE LET beforeReport == loadJson(snapshotFile(fileAt(files, pred.date)))
           afterReport == loadJson(snapshotFile(fileAt(files, Val(resolveDate))))
       IN IF ~Truthy(beforeReport) \/ ~Truthy(afterReport) THEN Null
          ELSE Some([before |-> fileAt(files, pred.date),
                     after |-> fileAt(files, Val(resolveDate)),
                     resolveDate |-> Val(resolveDate)])

\* the before and after reports of a prediction the loop gets to resolve, or
\* Null when the loop skips it
reportsFor(pred, files, currentDate) ==
  LET resolveDate == findResolveDate(listReportDates(files), targetDate(pred)) IN
  IF pred.resolved \/ resolveDate = Null THEN Null
  ELSE IF Val(resolveDate) > currentDate THEN Null
  ELSE LET beforeReport == loadJson(snapshotFile(fileAt(files, pred.date)))
           afterReport == loadJson(snapshotFile(fileAt(files, Val(resolveDate))))
       IN IF ~Truthy(beforeReport) \/ ~Truthy(afterReport) THEN Null
          ELSE Some([before |-> fileAt(files, pred.date),
                     after |-> fileAt(files, Val(resolveDate)),
                     resolveDate |-> Val(resolveDate)])

\* mutant of resolveOne: the resolved flag is set whatever resolvePrediction
\* returns
resolveOneFlagFirst(pred, files, currentDate) ==
  LET r == reportsFor(pred, files, currentDate) IN
  IF r = Null THEN pred
  ELSE [resolvePrediction(pred, positionMapTable[Val(r).before],
                          positionMapTable[Val(r).after], Val(r).resolveDate)
          EXCEPT !.resolved = TRUE]

\* mutant of resolveOne: a prediction the earliest snapshot leaves unresolved
\* is tried against the latest readable snapshot up to the current date
resolveOneRetryLater(pred, files, currentDate) ==
  LET r == reportsFor(pred, files, currentDate)
      readable == {d \in listReportDates(files) :
                     /\ d <= currentDate
                     /\ Truthy(loadJson(snapshotFile(fileAt(files, d))))
                     /\ ~positionMapThrowsTable[fileAt(files, d)]}
      latest == CHOOSE x \in readable : \A y \in readable : y <= x
  IN IF r = Null THEN pred
     ELSE IF resolvePrediction(pred, positionMapTable[Val(r).before],
                               positionMapTable[Val(r).after], Val(r).resolveDate).resolved
             \/ readable = {}
          THEN resolvePrediction(pred, positionMapTable[Val(r).before],
                                 positionMapTable[Val(r).after], Val(r).resolveDate)
          ELSE resolvePrediction(pred, positionMapTable[Val(r).before],
                                 positionMapTable[fileAt(files, latest)], latest)

\* one iteration of the resolution loop
resolveOne(pred, files, currentDate) ==
  LET r == reportsFor(pred, files, currentDate) IN
  IF r = Null THEN pred
  ELSE resolvePrediction(pred, positionMapTable[Val(r).before],
                         positionMapTable[Val(r).after], Val(r).resolveDate)

resolveAll(preds, files, currentDate) ==
  [i \in 1..Len(preds) |-> resolveOne(preds[i], files, currentDate)]

\* the loop throws when it builds a position map from a malformed report
resolveThrows(preds, files, currentDate) ==
  \E i \in 1..Len(preds) :
    LET r == reportsFor(preds[i], files, currentDate) IN
    /\ r # Null
    /\ \/ positionMapThrowsTable[Val(r).before]
       \/ positionMapThrowsTable[Val(r).after]

\* mutant of merged: new predictions are put in front of the stored ones
mergedNewFirst(file, docs) ==
  LET ledger == loadLedger(file) IN
  extractNew(docs, listAiDates(docs),
             {ledger.predictions[i].date : i \in 1..Len(ledger.predictions)})
  \o ledger.predictions

\* the prediction list updateLearningLedger holds after step 1
merged(file, docs) ==
  LET ledger == loadLedger(file) IN
  ledger.predictions
  \o extractNew(docs, listAiDates(docs),
                {ledger.predictions[i].date : i \in 1..Len(ledger.predictions)})

\* ledger.predictions after steps 1 and 2
updatedPredictions(file, files, docs, currentDate) ==
  resolveAll(merged(file, docs), files, currentDate)

\* steps 3 to 5 of updateLearningLedger: the derived fields are computed anew
\* from the predictions
derivedLedger(version, currentDate, predictions) ==
  LET accuracy == computeAccuracy(predictions)
      insights == generateInsights(accuracy, predictions)
  IN [version |-> version,
      lastUpdated |-> Some(currentDate),
      predictions |-> predictions,
      accuracy |-> Some(accuracy),
      insights |-> insights,
      recommendations |-> generateRecommendations(accuracy, insights),
      dailyScores |-> dailyScoresOf(predictions)]

\* the ledger after steps 1 to 5
updatedLedger(file, files, docs, currentDate) ==
  derivedLedger(loadLedger(file).version, currentDate,
                updatedPredictions(file, files, docs, currentDate))

\* step 1 throws when extractPredictions throws on a document it ingests
extractNewThrows(file, docs) ==
  LET ledger == loadLedger(file) IN
  \E aiDate \in listAiDates(docs) :
    /\ \A i \in 1..Len(ledger.predictions) : ledger.predictions[i].date # aiDate
    /\ Truthy(loadJson(docFile(docs[aiDate])))
    /\ extractedThrowsTable[docs[aiDate]]

cycleThrows(file, files, docs, currentDate) ==
  \/ resolveThrows(merged(file, docs), files, currentDate)
  \/ extractNewThrows(file, docs)

Init ==
  /\ ledgerFile = Absent
  /\ snapshots = [d \in Dates |-> "absent"]
  /\ aiDocs = [d \in IssueDates |-> "absent"]
  /\ lastRun = "none"
  /\ writes = 0
  /\ call = NoCall

\* updateLearningLedger(reportsDir, currentDate) runs to its end
UpdateCycle(currentDate) ==
  /\ lastRun' = "returned"
  /\ UNCHANGED <<snapshots, aiDocs, writes, call>>
  /\ ~cycleThrows(ledgerFile, snapshots, aiDocs, currentDate)
  /\ ledgerFile' = Json(updatedLedger(ledgerFile, snapshots, aiDocs, currentDate))

\* updateLearningLedger throws out of the resolution loop, before saveLedger
UpdateCycleThrows(currentDate) ==
  /\ lastRun' = "threw"
  /\ UNCHANGED <<ledgerFile, snapshots, aiDocs, writes, call>>
  /\ cycleThrows(ledgerFile, snapshots, aiDocs, currentDate)

\* the process dies inside saveLedger: fs.writeFile has truncated
\* ai-learning.json and written only part of the new text
CrashInSaveLedger(currentDate) ==
  /\ ~cycleThrows(ledgerFile, snapshots, aiDocs, currentDate)
  /\ ledgerFile' = Garbage
  /\ lastRun' = "crashed"
  /\ UNCHANGED <<snapshots, aiDocs, writes, call>>

\* the daily report writer stores, replaces or removes a snapshot
WriteSnapshot(d, content) ==
  /\ snapshots[d] # content
  /\ writes < MaxWrites
  /\ writes' = writes + 1
  /\ snapshots' = [snapshots EXCEPT ![d] = content]
  /\ UNCHANGED <<ledgerFile, aiDocs, lastRun, call>>

\* the analyst pass stores, replaces or removes its document of a date
WriteAiDoc(d, content) ==
  /\ aiDocs[d] # content
  /\ writes < MaxWrites
  /\ writes' = writes + 1
  /\ aiDocs' = [aiDocs EXCEPT ![d] = content]
  /\ UNCHANGED <<ledgerFile, snapshots, lastRun, call>>

Next ==
  \/ \E d \in Dates : UpdateCycle(d)
  \/ \E d \in Dates : UpdateCycleThrows(d)
  \/ \E d \in Dates : CrashInSaveLedger(d)
  \/ \E d \in Dates, c \in SnapshotContents : WriteSnapshot(d, c)
  \/ \E d \in IssueDates, c \in DocContents : WriteAiDoc(d, c)

Spec == Init /\ [][Next]_vars

\* ------------------------------------ the exported functions on their own
\* The functions updateLearningLedger is built from are exported and called
\* on their own (test/aiLearning.test.js).  A call is a record of the
\* function, its arguments and, once it has run, how it ended.
Called(fn, args) == [fn |-> fn, args |-> args, done |-> FALSE]
Returned(c, value) == [c EXCEPT !.done = TRUE] @@ [threw |-> FALSE, value |-> value]
Threw(c) == [c EXCEPT !.done = TRUE] @@ [threw |-> TRUE]

\* resolvePrediction: a prediction on AAPL as extractPredictions makes it from
\* an action string, and the position maps of two reports that hold AAPL at
\* some pnlPct, or do not hold it
ResolveActionStrings == {"buy", "sell", "trim", "hold", "watch"}
BeforePnlPcts == {0, 10000}
AfterPnlPcts == {0 - 2000, 9000, 9496, 9500, 10000, 10500, 10504, 20000}
Holding(pnlPcts) ==
  {Report(Arr(<<Position("AAPL", pct, 3000, 10)>>)) : pct \in pnlPcts}
  \cup {Report(Arr(<<Position("BTC", 25000, 5000, 1)>>))}
ScenarioNames == {"Bull case", "bear", "base"}
ResolveInputPredictions ==
  {Val(parseActionItem(Action(Str("AAPL"), Str(a), Num(70000), Str("24h")), 1, "W1")) :
     a \in ResolveActionStrings}
  \cup {scenarioPrediction(Obj(<< <<"name", Str(n)>>, <<"probability", Num(50000)>> >>),
                           1, "portfolio")[1] : n \in ScenarioNames}
ResolveCalls ==
  {Called("resolvePrediction",
          [prediction |-> p,
           beforePositions |-> buildPositionMap(b),
           afterPositions |-> buildPositionMap(a),
           resolvedDate |-> 2]) :
     p \in ResolveInputPredictions, b \in Holding(BeforePnlPcts), a \in Holding(AfterPnlPcts)}

\* resolvePrediction on scenarios: a portfolio of positions P1, P2, ... with
\* the given market values, none for an empty portfolio
BeforeMarketValues == {<<>>, <<1000>>, <<1000, 1000>>}
AfterMarketValues ==
  {<<>>, <<994>>, <<995>>, <<1000>>, <<1005>>, <<1006>>,
   <<1000, 989>>, <<1000, 990>>, <<1000, 1010>>, <<1000, 1011>>}
Portfolio(marketValues) ==
  Report(Arr([i \in 1..Len(marketValues) |->
                Position("P" \o ToString(i), 10000, marketValues[i], 10)]))
ScenarioCalls ==
  {Called("resolvePrediction",
          [prediction |-> scenarioPrediction(
                            Obj(<< <<"name", Str(n)>>, <<"probability", Num(50000)>> >>),
                            1, "portfolio")[1],
           beforePositions |-> buildPositionMap(Portfolio(b)),
           afterPositions |-> buildPositionMap(Portfolio(a)),
           resolvedDate |-> 8]) :
     n \in ScenarioNames, b \in BeforeMarketValues, a \in AfterMarketValues}

\* extractPredictions: documents with one action item, over the action
\* strings and the confidence forms of the tests and some more
ActionValues ==
  {Str("BUY"), Str("buy"), Str("Buy More"), Str("ADD"), Str("SELL"), Str("sell"),
   Str("EXIT"), Str("CLOSE"), Str("HOLD"), Str("hold"), Str("MAINTAIN"), Str("KEEP"),
   Str("TRIM"), Str("REDUCE"), Str("LIGHTEN"), JsNull, Str(""), Str("SOMETHING_ELSE"),
   Str("watch"), Str(" Sell now"), Bool(TRUE), Num(2 * Scale)}
ConfidenceValues ==
  {Num(75000), Num(75 * Scale), Str("75%"), Str("~70%"), Str("0.65"), JsNull, Str(""),
   Str("no probability"), Num(Scale), Num(100 * Scale), Num(150 * Scale), Str("250%"),
   Num(0 - 5 * Scale), Num(0 - 50000), Str("-5%"), Num(0), Bool(TRUE)}
OneActionDocs ==
  {Obj(<< <<"actions", Arr(<<Action(Str("AAPL"), a, Num(70000), Str("24h"))>>)>> >>) :
     a \in ActionValues}
  \cup {Obj(<< <<"actions", Arr(<<Action(Str("AAPL"), Str("BUY"), c, Str("24h"))>>)>> >>) :
          c \in ConfidenceValues}

\* documents with one scenario
ScenarioLabels == {"bull", "base", "bear", "Bull case", "BEARISH", "neither"}
Scenario(label, probability) ==
  Obj(<< <<"label", Str(label)>>, <<"probability", probability>>, <<"horizon", Str("2w")>> >>)
OneScenarioDocs ==
  {Obj(<< <<"scenarioMatrix", Arr(<<Scenario(l, c)>>)>> >>) :
     l \in ScenarioLabels, c \in ConfidenceValues}

\* documents that reach the same symbol by several paths: a nested wallet W1
\* with up to MaxItems items, a second nested wallet named W1 or W2, a
\* top-level action list and two scenario lists
MaxItems == 2
DedupItems ==
  {Action(Str("AAPL"), Str("BUY"), Num(70000), Str("24h")),
   Action(Str(" aapl"), Str("SELL"), Num(60000), Str("1 day")),
   Action(Str("AAPL"), Str("HOLD"), Num(80000), Str("1 week"))}
ItemLists == UNION {[1..n -> DedupItems] : n \in 0..MaxItems}
Wallet(name, items) ==
  Obj(<< <<"walletName", Str(name)>>, <<"actions", Arr(items)>> >>)
DedupDocs ==
  {Obj(<< <<"wallets", Arr(<<Wallet("W1", items), Wallet(w, <<item>>)>>)>>,
          <<"actions", Arr(<<other>>)>>,
          <<"scenarioMatrix", Arr(<<Scenario("bull", Num(30000))>>)>>,
          <<"scenarios", Arr(<<Scenario(l, Num(50000))>>)>> >>) :
     items \in ItemLists, w \in {"W1", "W2"}, item \in DedupItems,
     other \in DedupItems, l \in {"Bull", "bear"}}

\* documents with parts that are not what the extractor looks for
OddValues ==
  {JsNull, Num(42 * Scale), Str("AAPL"), Bool(TRUE), Arr(<<>>), Obj(<<>>),
   Arr(<<JsNull, Num(Scale), Str("x"), Arr(<<>>), Obj(<<>>)>>),
   Obj(<< <<"toString", Num(Scale)>> >>)}
OddDocs ==
  OddValues
  \cup {Obj(<< <<field, v>> >>) :
          field \in {"actions", "wallets", "scenarios", "crypto_book", "summary"},
          v \in OddValues}
  \cup {Obj(<< <<"actions", Arr(<<Obj(<< <<field, v>> >>), Action(Str("MSFT"), v, v, v)>>)>> >>) :
          field \in {"symbol", "ticker", "action"}, v \in OddValues}
  \cup {Obj(<< <<"wallets", Arr(<<Obj(<< <<"name", v>>, <<"holdings", Arr(items)>> >>)>>)>> >>) :
          v \in OddValues,
          items \in {<<>>, <<Action(Str("MSFT"), Str("buy"), JsNull, Str("1m"))>>}}
  \cup {Obj(<< <<"scenarios", Obj(<< <<"a", Obj(<< <<"name", v>>, <<"prob", Str("40%")>> >>)>> >>)>> >>) :
          v \in OddValues}

\* documents with one action item or one scenario, over the ways a horizon
\* is written or left out
HorizonValues ==
  {Undef, JsNull, Str(""), Str("24h"), Str("24 hours"), Str("1 day"), Str("1d"),
   Str("1 week"), Str("1W"), Str("7d"), Str("2 weeks"), Str("2w"), Str("14d"),
   Str(" 2-Week "), Str("1 month"), Str("30d"), Str("4w"), Str("soon"),
   Str("long term"), Num(7 * Scale)}
HorizonDocs ==
  {Obj(<< <<"actions", Arr(<<Action(Str("AAPL"), Str("BUY"), Num(70000), h)>>)>> >>) :
     h \in HorizonValues}
  \cup {Obj(<< <<"scenarioMatrix", Arr(<<
                  Obj(<< <<"label", Str("bull")>>, <<"probability", Num(50000)>>,
                         <<"horizon", h>> >>)>>)>> >>) : h \in HorizonValues}

ExtractCalls ==
  {Called("extractPredictions", [aiData |-> d, date |-> 1]) :
     d \in OneActionDocs \cup OneScenarioDocs \cup DedupDocs \cup OddDocs \cup HorizonDocs}

\* horizonToDays: the four horizons and other strings
HorizonNames == {"24h", "1w", "2w", "1m", "unknown", "", "1 week", "24H"}
HorizonCalls == {Called("horizonToDays", [horizon |-> h]) : h \in HorizonNames}

\* computeAccuracy: lists of up to MaxPredictions predictions, each a BUY
\* extracted with some confidence and then left open or resolved, right or
\* wrong, by resolvePrediction
MaxPredictions == 3
AccuracyConfidences == {JsNull, Num(30000), Num(65000), Num(70000)}
SymbolNo(i) == "S" \o ToString(i)
LedgerPrediction(i, confidence, fate) ==
  LET p == Val(parseActionItem(
                 Action(Str(SymbolNo(i)), Str("BUY"), confidence, Str("24h")), 1, "W1"))
      held(pnlPct) == buildPositionMap(Report(Arr(<<Position(SymbolNo(i), pnlPct, 3000, 10)>>)))
  IN CASE fate = "open" -> p
       [] fate = "right" -> resolvePrediction(p, held(10000), held(20000), 2)
       [] fate = "wrong" -> resolvePrediction(p, held(10000), held(9000), 2)
\* the predictions a list can hold at each of its places, computed once
PredictionKinds == AccuracyConfidences \X {"open", "right", "wrong"}
LedgerPredictions ==
  [i \in 1..MaxPredictions |->
     [kind \in PredictionKinds |-> LedgerPrediction(i, kind[1], kind[2])]]
PredictionList(kinds) == [i \in 1..Len(kinds) |-> LedgerPredictions[i][kinds[i]]]
AccuracyCall(kinds) == Called("computeAccuracy", [predictions |-> PredictionList(kinds)])

\* updateLearningLedger on a directory as it is found: ai-learning.json holds
\* up to MaxStored of the predictions of DocA issued on day 1, in any order,
\* unresolved, and derived fields that are fresh or left from earlier
\* predictions; the snapshots and documents of each date are drawn from what a
\* daily run leaves there or a broken file
MaxStored == 2
StoredPredictions == extractedTable["docA"][1]
StoredOrders ==
  UNION {{order \in [1..n -> 1..Len(StoredPredictions)] :
            \A i, j \in 1..n : order[i] = order[j] => i = j} : n \in 0..MaxStored}
StaleFields ==
  {[accuracy |-> Null, insights |-> <<>>, recommendations |-> <<>>, dailyScores |-> <<>>],
   [accuracy |-> Some(computeAccuracy(StoredPredictions)),
    insights |-> <<"Overall accuracy is strong at 100%. Maintain current analytical approach.">>,
    recommendations |-> <<>>,
    dailyScores |-> <<[date |-> 8, total |-> 4, correct |-> 4, accuracy |-> Some(Scale)]>>]}
LedgerFile(order, stale) ==
  Json([version |-> 1,
        lastUpdated |-> Some(1),
        predictions |-> [i \in 1..Len(order) |-> StoredPredictions[order[i]]],
        accuracy |-> stale.accuracy,
        insights |-> stale.insights,
        recommendations |-> stale.recommendations,
        dailyScores |-> stale.dailyScores])
LedgerFiles ==
  {Absent} \cup {LedgerFile(order, stale) : order \in StoredOrders, stale \in StaleFields}
FoundSnapshots ==
  {[d \in Dates |-> CASE d = 1 -> s1 [] d = 2 -> s2 [] OTHER -> s8] :
     s1 \in {"absent", "reportA"},
     s2 \in {"absent", "garbage", "reportB", "reportBad"},
     s8 \in {"absent", "reportC", "reportBad"}}
FoundDocs ==
  {[d \in IssueDates |-> IF d = 1 THEN d1 ELSE d2] :
     d1 \in {"absent", "docA"}, d2 \in {"absent", "docB"}}
\* found is what ai-learning.json holds when the call begins
UpdateCall(currentDate, found) ==
  Called("updateLearningLedger", [currentDate |-> currentDate, found |-> found])

\* generateInsights and generateRecommendations: lists of up to MaxJudged
\* predictions, each a BUY of confidence 0.7 resolved right or wrong, a BUY of
\* confidence 0.3 resolved right, or an open BUY without confidence, with the
\* accuracy computeAccuracy makes of the list and the insights
\* generateInsights makes of both
MaxJudged == 5
JudgedKinds ==
  {<<Num(70000), "right">>, <<Num(70000), "wrong">>, <<Num(30000), "right">>,
   <<JsNull, "open">>}
JudgedPredictions ==
  [i \in 1..MaxJudged |->
     [kind \in JudgedKinds |-> LedgerPrediction(i, kind[1], kind[2])]]
JudgedList(kinds) == [i \in 1..Len(kinds) |-> JudgedPredictions[i][kinds[i]]]
InsightsCall(predictions) ==
  Called("generateInsights",
         [accuracy |-> computeAccuracy(predictions), predictions |-> predictions])
RecommendationsCall(predictions) ==
  Called("generateRecommendations",
         [accuracy |-> computeAccuracy(predictions),
          insights |-> generateInsights(computeAccuracy(predictions), predictions)])

InitCalls ==
  /\ lastRun = "none"
  /\ writes = 0
  /\ \/ /\ ledgerFile = Absent
        /\ snapshots = [d \in Dates |-> "absent"]
        /\ aiDocs = [d \in IssueDates |-> "absent"]
        /\ \/ call \in ResolveCalls
           \/ call \in ScenarioCalls
           \/ call \in ExtractCalls
           \/ call \in HorizonCalls
           \/ \E n \in 0..MaxPredictions :
                \E kinds \in [1..n -> PredictionKinds] : call = AccuracyCall(kinds)
           \/ \E n \in 0..MaxJudged :
                \E kinds \in [1..n -> JudgedKinds] :
                  \/ call = InsightsCall(JudgedList(kinds))
                  \/ call = RecommendationsCall(JudgedList(kinds))
     \/ /\ ledgerFile \in LedgerFiles
        /\ snapshots \in FoundSnapshots
        /\ aiDocs \in FoundDocs
        /\ \E currentDate \in {2, 8} : call = UpdateCall(currentDate, ledgerFile)

CallResolvePrediction ==
  /\ call.fn = "resolvePrediction" /\ ~call.done
  /\ call' = Returned(call, resolvePrediction(call.args.prediction, call.args.beforePositions,
                                              call.args.afterPositions, call.args.resolvedDate))
  /\ UNCHANGED <<ledgerFile, snapshots, aiDocs, lastRun, writes>>

CallExtractPredictions ==
  /\ call.fn = "extractPredictions" /\ ~call.done
  /\ call' = IF extractPredictionsThrows(call.args.aiData, call.args.date)
             THEN Threw(call)
             ELSE Returned(call, extractPredictions(call.args.aiData, call.args.date))
  /\ UNCHANGED <<ledgerFile, snapshots, aiDocs, lastRun, writes>>

CallComputeAccuracy ==
  /\ call.fn = "computeAccuracy" /\ ~call.done
  /\ call' = Returned(call, computeAccuracy(call.args.predictions))
  /\ UNCHANGED <<ledgerFile, snapshots, aiDocs, lastRun, writes>>

CallGenerateInsights ==
  /\ call.fn = "generateInsights" /\ ~call.done
  /\ call' = Returned(call, generateInsights(call.args.accuracy, call.args.predictions))
  /\ UNCHANGED <<ledgerFile, snapshots, aiDocs, lastRun, writes>>

CallGenerateRecommendations ==
  /\ call.fn = "generateRecommendations" /\ ~call.done
  /\ call' = Returned(call, generateRecommendations(call.args.accuracy, call.args.insights))
  /\ UNCHANGED <<ledgerFile, snapshots, aiDocs, lastRun, writes>>

CallHorizonToDays ==
  /\ call.fn = "horizonToDays" /\ ~call.done
  /\ call' = Returned(call, horizonToDays(call.args.horizon))
  /\ UNCHANGED <<ledgerFile, snapshots, aiDocs, lastRun, writes>>

\* updateLearningLedger(reportsDir, currentDate): it throws, or it stores the
\* updated ledger and returns it
CallUpdateLearningLedger ==
  /\ call.fn = "updateLearningLedger" /\ ~call.done
  /\ IF cycleThrows(ledgerFile, snapshots, aiDocs, call.args.currentDate)
     THEN /\ call' = Threw(call)
          /\ lastRun' = "threw"
          /\ UNCHANGED ledgerFile
     ELSE /\ ledgerFile' = Json(updatedLedger(ledgerFile, snapshots, aiDocs,
                                              call.args.currentDate))
          /\ call' = Returned(call, ledgerFile'.v)
          /\ lastRun' = "returned"
  /\ UNCHANGED <<snapshots, aiDocs, writes>>

NextCalls ==
  \/ CallResolvePrediction
  \/ CallExtractPredictions
  \/ CallComputeAccuracy
  \/ CallGenerateInsights
  \/ CallGenerateRecommendations
  \/ CallHorizonToDays
  \/ CallUpdateLearningLedger

CallSpec == InitCalls /\ [][NextCalls]_vars

\* ================================================================= claims
\* the prediction list a cycle loads from a ledger file
Stored(file) == loadLedger(file).predictions
Readable(file) == file.f = "json"
Predictions == IF Readable(ledgerFile) THEN ledgerFile.v.predictions ELSE <<>>

\* a step that is an update cycle of current date d running to its end; the
\* conjuncts before UpdateCycle(d) follow from it and are evaluated first
Completes(d) ==
  /\ lastRun' = "returned"
  /\ Readable(ledgerFile')
  /\ ledgerFile'.v.lastUpdated = Some(d)
  /\ UpdateCycle(d)

\* the snapshot file of a day, and what it holds as a report: a file that
\* parses to a report with a well-formed position list (or none), and the
\* symbols of that list
snapshotAt(day) == fileAt(snapshots, day)
IsReport(name) ==
  /\ Readable(snapshotFile(name))
  /\ Truthy(snapshotFile(name).v)
  /\ ~positionMapThrowsTable[name]
symbolsIn(name) == IF IsReport(name) THEN DOMAIN positionMapTable[name] ELSE {}

identityKey(p) == <<p.date, p.symbol, p.horizon, p.wallet, p.scenarioLabel>>
keysOf(preds) == [i \in 1..Len(preds) |-> identityKey(preds[i])]
IsPrefix(a, b) == Len(a) <= Len(b) /\ SubSeq(b, 1, Len(a)) = a

\* the day offsets of the four horizons, as the specification gives them
DaysOfHorizon(h) ==
  CASE h = "24h" -> 1 [] h = "1w" -> 7 [] h = "2w" -> 14 [] h = "1m" -> 30

\* index i of the list a completed cycle stores was not resolved when the
\* cycle loaded the ledger (it was stored unresolved, or is newly extracted)
UnresolvedAtLoad(i) == i > Len(Stored(ledgerFile)) \/ ~Stored(ledgerFile)[i].resolved

\* C1: a second update cycle right after a completed one, with the same
\* current date and the directory otherwise unchanged, completes as well and
\* stores exactly the prediction list the first one stored.
C1_Idempotent ==
  [][\A d \in Dates :
       Completes(d) =>
         /\ ~cycleThrows(ledgerFile', snapshots', aiDocs', d)
         /\ updatedPredictions(ledgerFile', snapshots', aiDocs', d)
              = Stored(ledgerFile')]_vars

\* a ledger with resolved and unresolved predictions that a rerun of the
\* last cycle leaves as it is
C1_Witness ==
  /\ lastRun = "returned"
  /\ \E i \in 1..Len(Predictions) : Predictions[i].resolved
  /\ \E i \in 1..Len(Predictions) : ~Predictions[i].resolved
  /\ updatedPredictions(ledgerFile, snapshots, aiDocs, Val(ledgerFile.v.lastUpdated))
       = Predictions

\* C2: an update cycle leaves every resolved record it loads where it is and
\* as it is, whatever the directory holds by then and whatever its current
\* date; resolvePrediction returns a resolved prediction unchanged whatever
\* the position maps and the date.
C2_ResolvedImmutable ==
  [][\A d \in Dates :
       Completes(d) =>
         \A i \in 1..Len(Stored(ledgerFile)) :
           LET p == Stored(ledgerFile)[i] IN
           p.resolved =>
             /\ i <= Len(Stored(ledgerFile'))
             /\ Stored(ledgerFile')[i] = p
             /\ \A b \in SnapshotContents, a \in SnapshotContents, rd \in Dates :
                  resolvePrediction(p, positionMapTable[b], positionMapTable[a], rd) = p]_vars

\* a resolved record whose two snapshots no longer are the ones it was
\* resolved against, after a later cycle
C2_Witness ==
  /\ lastRun = "returned"
  /\ \E i \in 1..Len(Predictions) :
       LET p == Predictions[i] IN
       /\ p.resolved
       /\ p.action # "SCENARIO"
       /\ Val(p.outcome).resolvedDate < Val(ledgerFile.v.lastUpdated)
       /\ \/ snapshots[Val(p.outcome).resolvedDate] = "absent"
          \/ /\ IsReport(snapshotAt(p.date))
             /\ IsReport(snapshotAt(Val(p.outcome).resolvedDate))
             /\ resolveSymbolPrediction([p EXCEPT !.resolved = FALSE, !.outcome = Null],
                   positionMapTable[snapshotAt(p.date)],
                   positionMapTable[snapshotAt(Val(p.outcome).resolvedDate)],
                   Val(p.outcome).resolvedDate) # p

\* C3: in every stored ledger a prediction is unresolved exactly when it has
\* no outcome.
C3_ResolvedIffOutcome ==
  \A i \in 1..Len(Predictions) :
    (Predictions[i].resolved = FALSE) <=> (Predictions[i].outcome = Null)

\* a ledger holding a resolved prediction, and one that went through
\* resolvePrediction and came back unresolved (its symbol is in neither map)
C3_Witness ==
  /\ \E i \in 1..Len(Predictions) : Predictions[i].resolved
  /\ \E i \in 1..Len(Predictions) :
       /\ ~Predictions[i].resolved
       /\ reportsFor(Predictions[i], snapshots, Val(ledgerFile.v.lastUpdated)) # Null

\* C4: no two predictions of a stored ledger have the same identity key.
C4_KeysUnique ==
  \A i \in 1..Len(Predictions), j \in 1..Len(Predictions) :
    i # j => identityKey(Predictions[i]) # identityKey(Predictions[j])

\* a ledger built from the documents of two dates, one of them holding the
\* same key twice
C4_Witness ==
  /\ \E i \in 1..Len(Predictions), j \in 1..Len(Predictions) :
       Predictions[i].date # Predictions[j].date
  /\ \E i \in 1..Len(Predictions) : Predictions[i].wallet = "W1"

\* C5: a cycle with current date d resolves a prediction only if d is on or
\* after its issue date plus the days of its horizon and a snapshot dated
\* from there to d exists; the resolved date it stores lies in that range
\* and is the date of an existing snapshot.
C5_NoPrematureResolution ==
  [][\A d \in Dates :
       Completes(d) =>
         \A i \in 1..Len(Stored(ledgerFile')) :
           LET p == Stored(ledgerFile')[i] IN
           (UnresolvedAtLoad(i) /\ p.resolved) =>
             /\ p.date + DaysOfHorizon(p.horizon) <= Val(p.outcome).resolvedDate
             /\ Val(p.outcome).resolvedDate <= d
             /\ snapshots[Val(p.outcome).resolvedDate] # "absent"]_vars

\* a one-week prediction of day 1 still unresolved after a cycle of day 2 that
\* resolved the 24h predictions of day 1
C5_Witness ==
  /\ lastRun = "returned"
  /\ ledgerFile.v.lastUpdated = Some(2)
  /\ \E i \in 1..Len(Predictions) :
       /\ Predictions[i].horizon = "1w" /\ Predictions[i].date = 1
       /\ ~Predictions[i].resolved
       /\ snapshots[2] # "absent"
  /\ \E i \in 1..Len(Predictions) :
       /\ Predictions[i].resolved /\ Val(Predictions[i].outcome).resolvedDate = 2

dueDate(p) == p.date + DaysOfHorizon(p.horizon)
snapshotDatesFrom(day) == {s \in Dates : s >= day /\ snapshots[s] # "absent"}

C7_AppendOnly ==
  [][\A d \in Dates :
       Completes(d) =>
         IsPrefix(keysOf(Stored(ledgerFile)), keysOf(Stored(ledgerFile')))]_vars

\* the predictions of day 1 stored behind those of day 2: their document was
\* ingested by a later cycle
C7_Witness ==
  \E i \in 1..Len(Predictions), j \in 1..Len(Predictions) :
    i < j /\ Predictions[i].date = 2 /\ Predictions[j].date = 1

\* C8 as stated: whatever happens to a run, ai-learning.json afterwards holds
\* the ledger it held before or the complete ledger of the run.
C8_CrashSafe ==
  [][\/ ledgerFile' = ledgerFile
     \/ \E d \in Dates :
          /\ ~cycleThrows(ledgerFile, snapshots, aiDocs, d)
          /\ ledgerFile' = Json(updatedLedger(ledgerFile, snapshots, aiDocs, d))]_vars

\* C9 as stated: a run that finds ai-learning.json unreadable throws and
\* leaves the file as it is.
C9_UnreadableLedgerIsFatal ==
  [][(/\ ledgerFile # Absent
      /\ ~Readable(ledgerFile)
      /\ \E d \in Dates : UpdateCycle(d) \/ UpdateCycleThrows(d))
     => (lastRun' = "threw" /\ ledgerFile' = ledgerFile)]_vars

\* the change of pnlPct of a symbol between two snapshots, a missing side
\* counted as 0
pnlPctIn(name, symbol) ==
  IF symbol \in symbolsIn(name) THEN positionMapTable[name][symbol].pnlPct ELSE 0
pnlPctDelta(p) ==
  pnlPctIn(snapshotAt(Val(p.outcome).resolvedDate), p.symbol)
  - pnlPctIn(snapshotAt(p.date), p.symbol)

DirectionOfChange(change) ==
  IF change > 500 THEN "up" ELSE IF change < -500 THEN "down" ELSE "flat"

\* C10 as stated: the direction a cycle stores for a prediction on a symbol
\* is up, down or flat as the change of pnlPct is above +0.005, below -0.005
\* or neither.
C10_AsStated ==
  [][\A d \in Dates :
       Completes(d) =>
         \A i \in 1..Len(Stored(ledgerFile')) :
           LET p == Stored(ledgerFile')[i] IN
           (UnresolvedAtLoad(i) /\ p.resolved /\ p.action # "SCENARIO") =>
             Val(p.outcome).actualDirection = DirectionOfChange(pnlPctDelta(p))]_vars

\* ------------------------------------------------------------------------
\* a call of resolvePrediction that has returned, and what it was given
Resolved == call.fn = "resolvePrediction" /\ call.done
HeldBefore == call.args.prediction.symbol \in DOMAIN call.args.beforePositions
HeldAfter == call.args.prediction.symbol \in DOMAIN call.args.afterPositions

\* C11: resolvePrediction gives a SELL or TRIM prediction the expected
\* direction down, and when it resolves one, correct is true exactly when the
\* actual direction is down or the symbol is not in the after map; a SELL on a
\* symbol held before and not after is resolved and correct.
C11_DownExpectation ==
  (Resolved /\ call.args.prediction.action \in {"SELL", "TRIM"}) =>
    LET p == call.value IN
    /\ p.expectedDirection = Some("down")
    /\ p.resolved =>
         (Val(p.outcome).correct
            <=> (Val(p.outcome).actualDirection = "down" \/ ~HeldAfter))
    /\ (p.action = "SELL" /\ HeldBefore /\ ~HeldAfter) =>
         (p.resolved /\ Val(p.outcome).correct)

\* a SELL on a symbol held before at pnlPct 0 and sold by the after snapshot:
\* the direction is flat and the exit alone makes it correct
C11_Witness ==
  /\ Resolved
  /\ call.args.prediction.action = "SELL"
  /\ HeldBefore /\ ~HeldAfter
  /\ call.value.resolved
  /\ Val(call.value.outcome).actualDirection = "flat"
  /\ Val(call.value.outcome).correct

\* the pnlPct the symbol of the call has in a position map, 0 when the map
\* does not hold it
pnlPctOf(positions) ==
  IF call.args.prediction.symbol \in DOMAIN positions
  THEN positions[call.args.prediction.symbol].pnlPct ELSE 0

\* C12: resolvePrediction gives a BUY prediction the expected direction up,
\* and when it resolves one, correct is true exactly when the actual direction
\* is up; a BUY with pnlPct 0.10 before and 0.20 after is resolved, correct,
\* up, with pnlPctChange 0.10; a BUY whose pnlPct falls by more than 0.005 is
\* not correct.
C12_UpExpectation ==
  (Resolved /\ call.args.prediction.action = "BUY") =>
    LET p == call.value
        before == pnlPctOf(call.args.beforePositions)
        after == pnlPctOf(call.args.afterPositions)
    IN
    /\ p.expectedDirection = Some("up")
    /\ p.resolved =>
         (Val(p.outcome).correct <=> Val(p.outcome).actualDirection = "up")
    /\ (HeldBefore /\ HeldAfter /\ before = 10000 /\ after = 20000) =>
         /\ p.resolved
         /\ Val(p.outcome).correct
         /\ Val(p.outcome).actualDirection = "up"
         /\ Val(p.outcome).pnlPctChange = Some(10000)
    /\ (p.resolved /\ after - before < 0 - 500) => ~Val(p.outcome).correct

\* the BUY of the example: pnlPct 0.10 before, 0.20 after, resolved correct
C12_Witness ==
  /\ Resolved
  /\ call.args.prediction.action = "BUY"
  /\ HeldBefore /\ HeldAfter
  /\ pnlPctOf(call.args.beforePositions) = 10000
  /\ pnlPctOf(call.args.afterPositions) = 20000
  /\ Val(call.value.outcome).correct

\* C13: resolvePrediction gives a HOLD prediction the expected direction
\* flat, and when it resolves one, correct is true exactly when the actual
\* direction is not down, also when the position was exited or entered
\* between the two snapshots.
C13_FlatExpectation ==
  (Resolved /\ call.args.prediction.action = "HOLD") =>
    LET p == call.value IN
    /\ p.expectedDirection = Some("flat")
    /\ p.resolved =>
         (Val(p.outcome).correct <=> Val(p.outcome).actualDirection # "down")

\* a HOLD on a symbol entered between the snapshots, its pnlPct up: correct
\* though the direction is not flat
C13_Witness ==
  /\ Resolved
  /\ call.args.prediction.action = "HOLD"
  /\ ~HeldBefore /\ HeldAfter
  /\ Val(call.value.outcome).positionEntered
  /\ Val(call.value.outcome).actualDirection = "up"
  /\ Val(call.value.outcome).correct

\* ------------------------------------------------------------------------
\* a call of extractPredictions that has ended, and one that has returned
ExtractEnded == call.fn = "extractPredictions" /\ call.done
Extracted == ExtractEnded /\ ~call.threw

\* the records the three strategies find in the document of the call, in
\* discovery order
Found == discovered(call.args.aiData, call.args.date)
DifferOnlyInWallet(p, q) ==
  /\ p.wallet # q.wallet
  /\ identityKey([p EXCEPT !.wallet = q.wallet]) = identityKey(q)

SynonymTable ==
  << <<"BUY", "BUY">>, <<"buy", "BUY">>, <<"Buy More", "BUY">>, <<"ADD", "BUY">>,
     <<"SELL", "SELL">>, <<"sell", "SELL">>, <<"EXIT", "SELL">>, <<"CLOSE", "SELL">>,
     <<" Sell now", "SELL">>,
     <<"HOLD", "HOLD">>, <<"hold", "HOLD">>, <<"MAINTAIN", "HOLD">>, <<"KEEP", "HOLD">>,
     <<"TRIM", "TRIM">>, <<"REDUCE", "TRIM">>, <<"LIGHTEN", "TRIM">> >>
ActionNamedBy(text) ==
  IF \E i \in 1..Len(SynonymTable) : SynonymTable[i][1] = text
  THEN SynonymTable[CHOOSE i \in 1..Len(SynonymTable) : SynonymTable[i][1] = text][2]
  ELSE "UNKNOWN"

\* the action string of the document of the call when the document is just
\* one action item whose action is a string
OneActionString ==
  LET list == Get(call.args.aiData, "actions") IN
  IF /\ call.args.aiData.t = "object" /\ Len(call.args.aiData.kv) = 1
     /\ list.t = "array" /\ Len(list.a) = 1 /\ Get(list.a[1], "action").t = "string"
  THEN Some(Get(list.a[1], "action").s) ELSE Null

\* C15: in every list extractPredictions returns, a BUY expects up, a SELL or
\* TRIM down, a HOLD flat and an UNKNOWN nothing (null), and a SCENARIO
\* expects up when its label contains "bull", else down when it contains
\* "bear", else flat; an action string the synonym table does not know gives
\* the action UNKNOWN, one it knows the action it stands for.
C15_DirectionMapping ==
  Extracted =>
    /\ \A k \in 1..Len(call.value) :
         LET p == call.value[k] IN
         p.expectedDirection =
           CASE p.action = "BUY" -> Some("up")
             [] p.action \in {"SELL", "TRIM"} -> Some("down")
             [] p.action = "HOLD" -> Some("flat")
             [] p.action = "UNKNOWN" -> Null
             [] p.action = "SCENARIO" ->
                  IF includes(Val(p.scenarioLabel), "bull") THEN Some("up")
                  ELSE IF includes(Val(p.scenarioLabel), "bear") THEN Some("down")
                  ELSE Some("flat")
    /\ OneActionString # Null =>
         /\ Len(call.value) = 1
         /\ call.value[1].action = ActionNamedBy(Val(OneActionString))

\* a document whose one action is written "REDUCE": a TRIM that expects down
C15_Witness ==
  /\ Extracted
  /\ OneActionString = Some("REDUCE")
  /\ call.value[1].action = "TRIM"
  /\ call.value[1].expectedDirection = Some("down")

\* ------------------------------------------------------------------------
\* the document has a section the extractor looks at: a wallet-like key, a
\* wallets list, an action list or a scenario collection
SectionNames ==
  {"wallets", "actions", "recommendations", "actionPlan", "action_plan",
   "scenarioMatrix", "scenario_matrix", "scenarios"}
HasSections(doc) ==
  /\ doc.t = "object"
  /\ \E i \in 1..Len(doc.kv) :
       doc.kv[i][1] \in SectionNames \/ looksLikeWallet(doc.kv[i][1])

\* C16 as stated: extractPredictions returns a list whatever the document,
\* the empty list for null, for a value that is not an object and for an
\* object without sections, and no record without a symbol.
C16_AsStated ==
  ExtractEnded =>
    /\ ~call.threw
    /\ ~HasSections(call.args.aiData) => call.value = <<>>
    /\ \A k \in 1..Len(call.value) : call.value[k].symbol # ""

\* C17 as stated: the confidence of every record extractPredictions returns
\* is null or lies between 0 and 1, whatever form the document gives it in.
C17_AsStated ==
  Extracted =>
    \A k \in 1..Len(call.value) :
      LET confidence == call.value[k].confidence IN
      confidence = Null \/ (0 <= Val(confidence) /\ Val(confidence) <= Scale)

\* ------------------------------------------------------------------------
\* a call of computeAccuracy that has returned; the positions of the list it
\* was given that hold a resolved prediction, a correct one, one with a
\* confidence
AccuracyComputed == call.fn = "computeAccuracy" /\ call.done
Given == call.args.predictions
ResolvedAt == {i \in 1..Len(Given) : Given[i].resolved /\ Given[i].outcome # Null}
CorrectAt == {i \in ResolvedAt : Val(Given[i].outcome).correct}
RatedAt == {i \in ResolvedAt : Given[i].confidence # Null}

\* x is the number of four decimals nearest to n / d, for d > 0, where n is
\* a fixed-point number, and where n is a whole number
Nearest4(x, n, d) ==
  /\ x % (Scale \div Round4Unit) = 0
  /\ 2 * (x * d - n) <= (Scale \div Round4Unit) * d
  /\ 2 * (n - x * d) < (Scale \div Round4Unit) * d
Rounds4(x, n, d) == Nearest4(x, n * Scale, d)

\* C18: computeAccuracy reports as overall the number of correct resolved
\* predictions divided by the number of resolved ones, rounded to four
\* decimals, and null exactly when none is resolved; totalPredictions is the
\* length of the list, resolvedCount the number of resolved predictions, and
\* resolvedCount + unresolvedCount = totalPredictions.
C18_OverallAccuracy ==
  AccuracyComputed =>
    LET accuracy == call.value IN
    /\ accuracy.totalPredictions = Len(Given)
    /\ accuracy.resolvedCount = Cardinality(ResolvedAt)
    /\ accuracy.resolvedCount + accuracy.unresolvedCount = accuracy.totalPredictions
    /\ (accuracy.overall = Null) <=> (ResolvedAt = {})
    /\ ResolvedAt # {} =>
         Rounds4(Val(accuracy.overall), Cardinality(CorrectAt), Cardinality(ResolvedAt))

\* three predictions, all resolved, two of them correct: overall 0.6667
C18_Witness ==
  /\ AccuracyComputed
  /\ Cardinality(ResolvedAt) = 3
  /\ Cardinality(CorrectAt) = 2
  /\ call.value.overall = Some(66670)

\* the multiple of 0.1 nearest to a confidence, a half going up
NearestTenth(confidence) ==
  CHOOSE band \in {k * (Scale \div 10) : k \in -100..100} :
    /\ 2 * (band - confidence) <= Scale \div 10
    /\ 2 * (confidence - band) < Scale \div 10
RECURSIVE SumOfSizes(_)
SumOfSizes(bands) ==
  IF bands = <<>> THEN 0 ELSE Head(bands).sampleSize + SumOfSizes(Tail(bands))
RECURSIVE SumOfTotals(_)
SumOfTotals(groups) ==
  IF groups = <<>> THEN 0 ELSE Head(groups).stats.total + SumOfTotals(Tail(groups))

\* C19: the calibration computeAccuracy reports has one band for each
\* multiple of 0.1 that is the nearest one to the confidence of some resolved
\* prediction with a confidence; a band reports that multiple as
\* predictedProb, the number of those predictions as sampleSize, and, each to
\* four decimals, the share of correct ones as actualRate and the distance
\* of predictedProb from that share as gap; the sample sizes add up to the
\* number of resolved predictions with a confidence, and the resolved
\* predictions without one count in overall and in the grouped accuracy.
C19_CalibrationBands ==
  AccuracyComputed =>
    LET bands == call.value.calibration
        bandAt == [i \in RatedAt |-> NearestTenth(Val(Given[i].confidence))]
    IN
    /\ {bands[k].predictedProb : k \in 1..Len(bands)} = {bandAt[i] : i \in RatedAt}
    /\ \A k \in 1..Len(bands), l \in 1..Len(bands) :
         k # l => bands[k].predictedProb # bands[l].predictedProb
    /\ \A k \in 1..Len(bands) :
         LET members == {i \in RatedAt : bandAt[i] = bands[k].predictedProb}
             size == Cardinality(members)
             correct == Cardinality(members \cap CorrectAt)
             distance == IF bands[k].predictedProb * size >= correct * Scale
                         THEN bands[k].predictedProb * size - correct * Scale
                         ELSE correct * Scale - bands[k].predictedProb * size
         IN /\ bands[k].sampleSize = size
            /\ Rounds4(Val(bands[k].actualRate), correct, size)
            /\ Nearest4(Val(bands[k].gap), distance, size)
    /\ SumOfSizes(bands) = Cardinality(RatedAt)
    /\ call.value.resolvedCount = Cardinality(ResolvedAt)
    /\ SumOfTotals(call.value.byAction) = Cardinality(ResolvedAt)
    /\ SumOfTotals(call.value.bySymbol) = Cardinality(ResolvedAt)

\* two resolved predictions of confidence 0.65 and 0.7 in the band 0.7, one
\* of them correct, and a resolved prediction without confidence in no band
C19_Witness ==
  /\ AccuracyComputed
  /\ Cardinality(ResolvedAt) = 3
  /\ Cardinality(RatedAt) = 2
  /\ \E i \in RatedAt, j \in RatedAt :
       Given[i].confidence = Some(65000) /\ Given[j].confidence = Some(70000)
  /\ Len(call.value.calibration) = 1
  /\ call.value.calibration[1].predictedProb = 70000
  /\ call.value.calibration[1].sampleSize = 2
  /\ call.value.calibration[1].actualRate = Some(50000)
  /\ call.value.calibration[1].gap = Some(20000)

\* ------------------------------------------------------------------------
\* C20: when a completed cycle with current date d resolves a prediction, the
\* resolved date it stores is the earliest date of a snapshot file dated from
\* the due date of the prediction to d, and the record it stores is what
\* resolvePrediction makes of the prediction with the snapshot of its issue
\* date as before and the snapshot of the resolved date as after; when no
\* snapshot file is dated from the due date to d, the prediction stays
\* unresolved.
C20_ResolutionSnapshot ==
  [][\A d \in Dates :
       Completes(d) =>
         \A i \in 1..Len(Stored(ledgerFile')) :
           LET p == Stored(ledgerFile')[i]
               window == {s \in snapshotDatesFrom(dueDate(p)) : s <= d}
           IN UnresolvedAtLoad(i) =>
                /\ p.resolved =>
                     /\ window # {}
                     /\ Val(p.outcome).resolvedDate = Min(window)
                     /\ p = resolvePrediction([p EXCEPT !.resolved = FALSE, !.outcome = Null],
                                              positionMapTable[snapshotAt(p.date)],
                                              positionMapTable[snapshotAt(Min(window))],
                                              Min(window))
                /\ window = {} => ~p.resolved]_vars

\* after a cycle of day 8 with different snapshots on days 2 and 8: a 24h
\* prediction of day 1 resolved against the snapshot of day 2
C20_Witness ==
  /\ lastRun = "returned"
  /\ ledgerFile.v.lastUpdated = Some(8)
  /\ IsReport(snapshotAt(1)) /\ IsReport(snapshotAt(2)) /\ IsReport(snapshotAt(8))
  /\ snapshots[2] # snapshots[8]
  /\ \E i \in 1..Len(Predictions) :
       LET p == Predictions[i] IN
       /\ p.date = 1 /\ p.horizon = "24h" /\ p.action # "SCENARIO"
       /\ p.resolved
       /\ Val(p.outcome).resolvedDate = 2
       /\ Val(p.outcome).pnlPctChange = round4(Some(pnlPctDelta(p)))
       /\ pnlPctIn(snapshotAt(8), p.symbol) # pnlPctIn(snapshotAt(2), p.symbol)

\* ------------------------------------------------------------------------
\* C21: resolvePrediction returns an unresolved prediction on a symbol as it
\* is, unresolved and without outcome, when neither position map holds the
\* symbol, and resolves it when at least one of the two maps holds it.
C21_UnknownSymbol ==
  (Resolved /\ call.args.prediction.action # "SCENARIO") =>
    IF ~HeldBefore /\ ~HeldAfter
    THEN /\ call.value = call.args.prediction
         /\ ~call.value.resolved
         /\ call.value.outcome = Null
    ELSE /\ call.value.resolved
         /\ call.value.outcome # Null

\* a BUY on AAPL resolved against two reports that hold only BTC
C21_Witness ==
  /\ Resolved
  /\ call.args.prediction.action = "BUY"
  /\ ~HeldBefore /\ ~HeldAfter
  /\ DOMAIN call.args.beforePositions # {} /\ DOMAIN call.args.afterPositions # {}
  /\ call.value = call.args.prediction
  /\ ~call.value.resolved

\* ------------------------------------------------------------------------
\* the sum of the market values of a position map
RECURSIVE TotalOver(_, _)
TotalOver(positions, symbols) ==
  IF symbols = {} THEN 0
  ELSE LET least == CHOOSE s \in symbols : \A t \in symbols : positions[s].marketValue
                                                                <= positions[t].marketValue
       IN positions[least].marketValue + TotalOver(positions, symbols \ {least})
TotalBefore == TotalOver(call.args.beforePositions, DOMAIN call.args.beforePositions)
TotalAfter == TotalOver(call.args.afterPositions, DOMAIN call.args.afterPositions)

\* the direction of the change of the portfolio total: the change divided by
\* the before total is above +0.005, below -0.005 or neither; a before total
\* of zero counts as no change
PortfolioDirection ==
  IF TotalBefore > 0 /\ 1000 * (TotalAfter - TotalBefore) > 5 * TotalBefore THEN "up"
  ELSE IF TotalBefore > 0 /\ 1000 * (TotalAfter - TotalBefore) < 0 - 5 * TotalBefore
  THEN "down"
  ELSE "flat"

afterDate(p, d) == Min({s \in snapshotDatesFrom(dueDate(p)) : s <= d})
HasAfterDate(p, d) == \E s \in snapshotDatesFrom(dueDate(p)) : s <= d

\* C23 as stated: whatever the snapshot files hold, a run of
\* updateLearningLedger whose analyst documents extract without error runs to
\* its end and stores the ledger, and a prediction whose issue-date snapshot
\* or selected after snapshot is not a well-formed report is left unresolved.
C23_AsStated ==
  [][\A d \in Dates :
       (/\ ~extractNewThrows(ledgerFile, aiDocs)
        /\ UpdateCycle(d) \/ UpdateCycleThrows(d))
       => /\ lastRun' = "returned"
          /\ Readable(ledgerFile')
          /\ \A i \in 1..Len(Stored(ledgerFile')) :
               LET p == Stored(ledgerFile')[i] IN
               (/\ UnresolvedAtLoad(i)
                /\ HasAfterDate(p, d)
                /\ \/ ~IsReport(snapshotAt(p.date))
                   \/ ~IsReport(snapshotAt(afterDate(p, d))))
               => ~p.resolved]_vars

\* ------------------------------------------------------------------------
\* the analyst document of an issue date is ingested by a cycle that loads
\* the ledger file: it parses and the ledger holds no prediction of that date
Ingested(day) ==
  /\ Readable(docFile(aiDocs[day]))
  /\ \A i \in 1..Len(Stored(ledgerFile)) : Stored(ledgerFile)[i].date # day
RECURSIVE IngestedKeys(_)
IngestedKeys(days) ==
  IF days = {} THEN <<>>
  ELSE LET day == Min(days) IN
       (IF Ingested(day) THEN keysOf(extractedTable[aiDocs[day]][day]) ELSE <<>>)
       \o IngestedKeys(days \ {day})

\* C24 as stated: every run of updateLearningLedger runs to its end and
\* stores the predictions it loaded followed by the predictions of exactly
\* the documents that parse and whose date has no prediction in the loaded
\* ledger, in date order; with no document and no stored prediction it stores
\* an empty list and resolvedCount 0.
C24_AsStated ==
  [][\A d \in Dates :
       (UpdateCycle(d) \/ UpdateCycleThrows(d)) =>
         /\ lastRun' = "returned"
         /\ Readable(ledgerFile')
         /\ keysOf(Stored(ledgerFile'))
              = keysOf(Stored(ledgerFile)) \o IngestedKeys(IssueDates)
         /\ (Stored(ledgerFile) = <<>> /\ \A day \in IssueDates : aiDocs[day] = "absent")
              => /\ Stored(ledgerFile') = <<>>
                 /\ Val(ledgerFile'.v.accuracy).resolvedCount = 0]_vars

\* ------------------------------------------------------------------------
\* a call of updateLearningLedger that has returned, and the positions of the
\* list it stored that hold a resolved prediction of an issue date
Updated == call.fn = "updateLearningLedger" /\ call.done /\ ~call.threw
ResolvedOn(day) ==
  {i \in 1..Len(call.value.predictions) :
     /\ call.value.predictions[i].date = day
     /\ call.value.predictions[i].resolved
     /\ call.value.predictions[i].outcome # Null}
RECURSIVE SumOfScores(_)
SumOfScores(scores) ==
  IF scores = <<>> THEN 0 ELSE Head(scores).total + SumOfScores(Tail(scores))

\* C25: the ledger updateLearningLedger stores and returns has the accuracy,
\* insights and recommendations that computeAccuracy, generateInsights and
\* generateRecommendations make of the prediction list it stores, whatever
\* the ledger it loaded held in these fields; its dailyScores have one entry
\* for each issue date with a resolved prediction and no other, in ascending
\* date order, each with the number of resolved predictions of the date, the
\* number of correct ones and their ratio to four decimals, and the totals
\* add up to resolvedCount.
C25_DerivedRecomputed ==
  Updated =>
    LET ledger == call.value
        scores == call.value.dailyScores
    IN /\ ledgerFile = Json(ledger)
       /\ ledger.accuracy = Some(computeAccuracy(ledger.predictions))
       /\ ledger.insights = generateInsights(Val(ledger.accuracy), ledger.predictions)
       /\ ledger.recommendations
            = generateRecommendations(Val(ledger.accuracy), ledger.insights)
       /\ \A i, j \in 1..Len(scores) : i < j => scores[i].date < scores[j].date
       /\ {scores[i].date : i \in 1..Len(scores)}
            = {day \in Dates \cup IssueDates : ResolvedOn(day) # {}}
       /\ \A i \in 1..Len(scores) :
            LET of == ResolvedOn(scores[i].date)
                right == {k \in of : Val(ledger.predictions[k].outcome).correct}
            IN /\ scores[i].total = Cardinality(of)
               /\ scores[i].correct = Cardinality(right)
               /\ scores[i].accuracy # Null
               /\ Rounds4(Val(scores[i].accuracy), Cardinality(right), Cardinality(of))
       /\ SumOfScores(scores) = Val(ledger.accuracy).resolvedCount

\* a call that found a ledger with scores left from other predictions and
\* stores scores for day 1 and day 2, with a prediction still unresolved
C25_Witness ==
  /\ Updated
  /\ Readable(call.args.found)
  /\ Len(call.args.found.v.dailyScores) = 1
  /\ call.args.found.v.dailyScores[1].date = 8
  /\ Len(call.value.dailyScores) = 2
  /\ call.value.dailyScores[1].date = 1
  /\ call.value.dailyScores[2].date = 2
  /\ \E i \in 1..Len(call.value.predictions) : ~call.value.predictions[i].resolved

\* ------------------------------------------------------------------------
\* the four horizons, the days of each, and the horizon a text names
Horizons == {"24h", "1w", "2w", "1m"}
HorizonTable ==
  << <<"24h", "24h">>, <<"24 hours", "24h">>, <<"1 day", "24h">>, <<"1d", "24h">>,
     <<"1 week", "1w">>, <<"1W", "1w">>, <<"7d", "1w">>,
     <<"2 weeks", "2w">>, <<"2w", "2w">>, <<"14d", "2w">>, <<" 2-Week ", "2w">>,
     <<"1 month", "1m">>, <<"30d", "1m">>, <<"4w", "1m">> >>
Names(h) == h.t = "string" /\ \E i \in 1..Len(HorizonTable) : HorizonTable[i][1] = h.s
HorizonNamedBy(h) ==
  HorizonTable[CHOOSE i \in 1..Len(HorizonTable) : HorizonTable[i][1] = h.s][2]
NoHorizon(h) == h \in {Undef, JsNull, Str("")}

\* the horizon of the one entry of the document of the call, when the
\* document is just one action item or one scenario
OneHorizon ==
  LET doc == call.args.aiData IN
  IF /\ doc.t = "object" /\ Len(doc.kv) = 1
     /\ doc.kv[1][1] \in {"actions", "scenarioMatrix"}
     /\ doc.kv[1][2].t = "array" /\ Len(doc.kv[1][2].a) = 1
     /\ doc.kv[1][2].a[1].t = "object"
  THEN Some(Get(doc.kv[1][2].a[1], "horizon")) ELSE Null

HorizonConverted == call.fn = "horizonToDays" /\ call.done
DaysStated ==
  /\ HorizonConverted =>
       call.value = IF call.args.horizon \in Horizons
                    THEN DaysOfHorizon(call.args.horizon) ELSE 1

InsightsGiven == call.fn = "generateInsights" /\ call.done
ResolvedGiven ==
  Cardinality({i \in 1..Len(call.args.predictions) :
                 /\ call.args.predictions[i].resolved
                 /\ call.args.predictions[i].outcome # Null})
Notes == {call.value[i] : i \in 1..Len(call.value)}
OverconfidenceNote ==
  "Tendency toward overconfidence detected. When stating high-confidence predictions, actual accuracy is lower than claimed."
UnderconfidenceNote ==
  "Tendency toward under-confidence detected. Some cautious predictions actually perform better than expected. Consider sizing up on these."
\* the bands of at least three predictions whose stated probability is more
\* than 0.1 above, or below, the share that came out right
Overconfident ==
  {i \in 1..Len(call.args.accuracy.calibration) :
     LET band == call.args.accuracy.calibration[i] IN
     band.sampleSize >= 3 /\ 10 * band.predictedProb > 10 * Val(band.actualRate) + Scale}
Underconfident ==
  {i \in 1..Len(call.args.accuracy.calibration) :
     LET band == call.args.accuracy.calibration[i] IN
     band.sampleSize >= 3 /\ 10 * Val(band.actualRate) > 10 * band.predictedProb + Scale}

\* C27 as stated: given at least three resolved predictions, generateInsights
\* returns the overconfidence note when some band is overconfident and the
\* under-confidence note when some band is underconfident, whatever the
\* number of bands.
C27_AsStated ==
  (InsightsGiven /\ ResolvedGiven >= 3) =>
    /\ Overconfident # {} => OverconfidenceNote \in Notes
    /\ Underconfident # {} => UnderconfidenceNote \in Notes

\* ------------------------------------------------------------------------
\* a call of generateRecommendations that has returned, and the
\* recommendations of a category among those it returned
RecommendationsGiven == call.fn = "generateRecommendations" /\ call.done
OfCategory(category) ==
  {i \in 1..Len(call.value) : call.value[i].category = category}
InsufficientNote ==
  "Not enough resolved predictions yet to generate meaningful insights. Keep running daily analyses."

\* C28: given fewer than three resolved predictions generateInsights returns
\* the insufficient-data note and nothing else; given an accuracy with
\* resolvedCount below 5 generateRecommendations returns one recommendation,
\* the need-more-data one; from 5 on it returns no need-more-data
\* recommendation, and the critical strategy recommendation exactly when the
\* overall accuracy is below 0.5.
C28_SufficiencyGates ==
  /\ (InsightsGiven /\ ResolvedGiven < 3) => call.value = <<InsufficientNote>>
  /\ (RecommendationsGiven /\ call.args.accuracy.resolvedCount < 5) =>
       /\ Len(call.value) = 1
       /\ call.value[1].category = "data" /\ call.value[1].priority = "high"
  /\ (RecommendationsGiven /\ call.args.accuracy.resolvedCount >= 5) =>
       /\ OfCategory("data") = {}
       /\ (\E i \in OfCategory("strategy") : call.value[i].priority = "critical")
            <=> (/\ call.args.accuracy.overall # Null
                 /\ 2 * Val(call.args.accuracy.overall) < Scale)

\* generateRecommendations was given five resolved predictions, most of them
\* wrong, and returned the critical strategy recommendation
C28_Witness ==
  /\ RecommendationsGiven /\ call.args.accuracy.resolvedCount >= 5
  /\ 2 * Val(call.args.accuracy.overall) < Scale
  /\ OfCategory("strategy") # {} /\ OfCategory("data") = {}

\* ------------------------------------------------------------------------
\* the resolved flag and outcome of a prediction
Result(p) == [resolved |-> p.resolved, outcome |-> p.outcome]
\* what a cycle over the same snapshots on the same date makes of a
\* prediction held alone in the ledger: the cycle throws and leaves it as it
\* was, or resolveOne decides
ResultAlone(p, files, currentDate) ==
  IF resolveThrows(<<p>>, files, currentDate) THEN Result(p)
  ELSE Result(resolveOne(p, files, currentDate))
\* what the call of updateLearningLedger made of the i-th prediction of the
\* list it held after step 1: nothing when it threw
ResultIn(held, i) ==
  IF call.threw THEN Result(held[i]) ELSE Result(call.value.predictions[i])

\* C29 as stated: a cycle gives each prediction it holds the resolved flag
\* and outcome that a cycle over the same snapshots on the same date gives to
\* that prediction held alone.
C29_AsStated ==
  [][CallUpdateLearningLedger =>
       LET held == merged(ledgerFile, aiDocs) IN
       \A i \in 1..Len(held) :
         ResultIn(held, i)' = ResultAlone(held[i], snapshots, call.args.currentDate)]_vars

\* ------------------------------------------------------------------------
\* C30: a completed cycle leaves unresolved every unresolved prediction on a
\* symbol that occurs neither in the issue-date snapshot nor in the earliest
\* snapshot dated on or after the due date, whatever the snapshots after that
\* one hold, and every unresolved prediction whose issue-date snapshot is
\* missing; as each cycle reads only the directory it finds, this goes on for
\* as long as those snapshots stay as they are.
C30_StaysUnresolved ==
  [][\A d \in Dates :
       Completes(d) =>
         \A i \in 1..Len(Stored(ledgerFile')) :
           LET p == Stored(ledgerFile')[i]
               later == snapshotDatesFrom(dueDate(p))
           IN UnresolvedAtLoad(i) =>
                /\ (/\ p.action # "SCENARIO"
                    /\ later # {}
                    /\ p.symbol \notin symbolsIn(snapshotAt(p.date))
                                         \cup symbolsIn(snapshotAt(Min(later))))
                   => ~p.resolved
                /\ snapshots[p.date] = "absent" => ~p.resolved]_vars

\* a prediction of day 1 on BTC, due on day 2, left unresolved by the cycle
\* of day 8: the reports of days 1 and 2 do not hold BTC, the report of day 8
\* does
C30_Witness ==
  /\ lastRun = "returned"
  /\ Readable(ledgerFile) /\ ledgerFile.v.lastUpdated = Some(8)
  /\ IsReport(snapshotAt(1)) /\ IsReport(snapshotAt(2)) /\ IsReport(snapshotAt(8))
  /\ "BTC" \notin symbolsIn(snapshotAt(1)) \cup symbolsIn(snapshotAt(2))
  /\ "BTC" \in symbolsIn(snapshotAt(8))
  /\ \E i \in 1..Len(Predictions) :
       /\ Predictions[i].symbol = "BTC" /\ Predictions[i].date = 1
       /\ dueDate(Predictions[i]) = 2
       /\ ~Predictions[i].resolved

====
